---- MODULE Spec2Model ----
(***************************************************************************)
(* A model of zylos-browser's Sequence Execution Engine (lib/sequence.js), *)
(* its command layer (lib/browser.js) and the Site Knowledge Store         *)
(* (lib/knowledge.js).                                                     *)
(*                                                                         *)
(* Spec     : one run of runSequence against a nondeterministic browser.   *)
(* SpecK    : calls of the Knowledge Store API against the persisted store.*)
(* SpecArgs : the interpolate -> Browser.type/fill -> _parseArgs pipeline. *)
(* SpecVerify   : verifySuccess on its own, for more verifications.        *)
(* SpecLoad     : loadKnowledge on records of every shape of sections.     *)
(* SpecAwait    : runSequence with each browser command issued, then       *)
(*                awaited.                                                 *)
(* SpecRequired : runSequence on sequences that declare variables.         *)
(***************************************************************************)
EXTENDS Integers, Sequences, FiniteSets, TLC

VARIABLES
    \* ---- runSequence ----
    doc,          \* the sequence document returned by loadSequence
    config,       \* config.sequences: retry_on_failure, max_retries
    variables,    \* the caller's variables: the set of bound names
    pc,           \* position inside runSequence
    i,            \* index of the step loop
    retry,        \* counter of the retry loop
    poll,         \* polls verifySuccess has made
    elements,     \* the most recent parsed element list
    stepResults,  \* the trace returned as result.steps
    result,       \* the value runSequence returns
    execs,        \* history: executeAction calls made for step i
    issued,       \* history: the commands sent to the browser
    cmdStep,      \* history: the highest step index a command was sent for
    interp,       \* history: has interpolate thrown, and was a command sent since
    sinceMut,     \* history: snapshot requests since the last mutating command
    lastOk,       \* history: did the last executeAction call return normally
    met,          \* history: did the last verification poll meet a criterion
    urlOk,        \* the page shown when the run starts satisfies preconditions.url_pattern
    inflight,     \* the browser commands issued and neither returned nor failed
    \* ---- Knowledge Store ----
    store,        \* KNOWLEDGE_DIR: domain -> persisted record
    kconfig,      \* config.knowledge.max_gotchas_per_domain
    clock,        \* the time new Date() returns, counted in writes
    kcall,        \* the last Knowledge Store call and what it returned
    \* ---- command layer ----
    acall         \* the last type/fill call: value, command string, argv

runVars == <<doc, config, variables, pc, i, retry, poll, elements, stepResults,
             result, execs, issued, cmdStep, interp, sinceMut, lastOk, met, urlOk>>
kVars == <<store, kconfig, clock, kcall>>
aVars == <<acall>>
vars == <<runVars, inflight, kVars, aVars>>

(***************************************************************************)
(* Bounds of the model.                                                    *)
(***************************************************************************)
MaxSteps == 2          \* longest sequence explored
MaxRetriesCfg == 2     \* largest configured sequences.max_retries explored
MaxGotchasCfg == 2     \* largest configured knowledge.max_gotchas_per_domain explored
MaxValueLen == 3       \* longest variable value explored, in characters
MaxSections == 3       \* most sections of a record loadKnowledge is explored on
MaxWrites == 2         \* writes to the knowledge store explored
MaxElements == 2       \* longest snapshot a single step is explored on, in elements

(***************************************************************************)
(* Program constants.                                                      *)
(***************************************************************************)
DefaultMaxRetries == 2     \* config.sequences?.max_retries || 2
PollInterval == 500        \* verifySuccess: const interval = 500
DefaultVerifyTimeout == 5000
DefaultMaxGotchas == 50    \* config.knowledge?.max_gotchas_per_domain || 50

(***************************************************************************)
(* Targets, elements and pages.                                            *)
(***************************************************************************)
NoElement == [role |-> "", name |-> "", ref |-> 0, nth |-> 0, disabled |-> FALSE]

\* A target without a field carries "" (or -1 for nth).
TargetGo == [role |-> "button", name |-> "Go", name_contains |-> "", nth |-> -1]
TargetOk == [role |-> "link", name |-> "", name_contains |-> "ok", nth |-> -1]
NoTarget == [role |-> "", name |-> "", name_contains |-> "", nth |-> -1]

ElGo == [role |-> "button", name |-> "Go", ref |-> 1, nth |-> 0, disabled |-> FALSE]
ElGoOff == [role |-> "button", name |-> "Go", ref |-> 1, nth |-> 0, disabled |-> TRUE]
ElOk == [role |-> "link", name |-> "ok", ref |-> 2, nth |-> 0, disabled |-> FALSE]

\* What browser.snapshot can return: the parsed elements and the words of the
\* raw text that verification looks for.
PageForm == [elements |-> <<ElGo>>, text |-> {}]
PageDone == [elements |-> <<ElGoOff, ElOk>>, text |-> {"welcome"}]
Pages == {PageForm, PageDone}

\* The characters of the strings the code takes apart.
Chars(word) ==
    CASE word = "type" -> <<"t", "y", "p", "e">>
      [] word = "fill" -> <<"f", "i", "l", "l">>
      [] word = "@e1" -> <<"@", "e", "1">>
      [] word = "--cdp" -> <<"-", "-", "c", "d", "p">>
      [] word = "9222" -> <<"9", "2", "2", "2">>
      [] word = "" -> <<>>
      [] word = "Go" -> <<"G", "o">>
      [] word = "ok" -> <<"o", "k">>
      [] word = "OK" -> <<"O", "K">>
      [] word = "Book" -> <<"B", "o", "o", "k">>
      [] word = "k" -> <<"k">>
      [] word = "timeout" ->
           <<"t", "i", "m", "e", "o", "u", "t">>
      [] word = "timed out" ->
           <<"t", "i", "m", "e", "d", " ", "o", "u", "t">>
      [] word = "not found" ->
           <<"n", "o", "t", " ", "f", "o", "u", "n", "d">>
      [] word = "element not found" ->
           <<"e", "l", "e", "m", "e", "n", "t", " ", "n", "o", "t", " ", "f", "o", "u", "n", "d">>
      [] word = "/user/123/profile" ->
           <<"/", "u", "s", "e", "r", "/", "1", "2", "3", "/", "p", "r", "o", "f", "i", "l", "e">>
      [] word = "/user/*/profile" ->
           <<"/", "u", "s", "e", "r", "/", "*", "/", "p", "r", "o", "f", "i", "l", "e">>
      [] word = "/user/profile" ->
           <<"/", "u", "s", "e", "r", "/", "p", "r", "o", "f", "i", "l", "e">>
      [] word = "/a/b/c" ->
           <<"/", "a", "/", "b", "/", "c">>
      [] word = "/*/*/c" ->
           <<"/", "*", "/", "*", "/", "c">>

\* String.prototype.toLowerCase
toLowerCase(str) ==
    [n \in 1..Len(str) |->
        CASE str[n] = "G" -> "g"
          [] str[n] = "O" -> "o"
          [] str[n] = "K" -> "k"
          [] str[n] = "B" -> "b"
          [] str[n] = "D" -> "d"
          [] str[n] = "E" -> "e"
          [] str[n] = "F" -> "f"
          [] str[n] = "N" -> "n"
          [] str[n] = "R" -> "r"
          [] str[n] = "T" -> "t"
          [] OTHER -> str[n]]

\* String.prototype.includes
includes(str, part) ==
    \E k \in 0..(Len(str) - Len(part)) : SubSeq(str, k + 1, k + Len(part)) = part

\* el.name.toLowerCase().includes(target.name_contains.toLowerCase())
NameIncludes(name, part) == includes(toLowerCase(Chars(name)), toLowerCase(Chars(part)))

\* findElement without the test of el.disabled.
findElementDisabledToo(elems, target) ==
    LET ok(el) == /\ (target.role # "" => el.role = target.role)
                  /\ (target.name # "" => el.name = target.name)
                  /\ (target.name_contains # "" => NameIncludes(el.name, target.name_contains))
                  /\ (target.nth # -1 => el.nth = target.nth)
        hits == {k \in 1..Len(elems) : ok(elems[k])}
    IN  IF hits = {} THEN NoElement
        ELSE elems[CHOOSE k \in hits : \A j \in hits : k <= j]

findElement(elems, target) ==
    LET ok(el) == /\ (target.role # "" => el.role = target.role)
                  /\ (target.name # "" => el.name = target.name)
                  /\ (target.name_contains # "" => NameIncludes(el.name, target.name_contains))
                  /\ (target.nth # -1 => el.nth = target.nth)
                  /\ ~el.disabled
        hits == {k \in 1..Len(elems) : ok(elems[k])}
    IN  IF hits = {} THEN NoElement
        ELSE elems[CHOOSE k \in hits : \A j \in hits : k <= j]

RECURSIVE FirstFallback(_, _)
FirstFallback(elems, targets) ==
    IF targets = <<>> THEN NoElement
    ELSE LET el == findElement(elems, Head(targets))
         IN  IF el # NoElement THEN el ELSE FirstFallback(elems, Tail(targets))

\* findElementWithFallback without the loop over fallback_targets.
findElementPrimaryOnly(elems, action) == findElement(elems, action.target)

findElementWithFallback(elems, action) ==
    LET el == findElement(elems, action.target)
    IN  IF el # NoElement THEN el ELSE FirstFallback(elems, action.fallback_targets)

(***************************************************************************)
(* Steps and sequence documents.                                           *)
(***************************************************************************)
\* A value or url template: absent (undefined), or a string whose {{name}}
\* tokens are refs.
NoValue == [present |-> FALSE, refs |-> {}]
UserValue == [present |-> TRUE, refs |-> {"user"}]

MkStep(a, hasT, t, fb, v, u) ==
    [action |-> a, hasTarget |-> hasT, target |-> t, fallback_targets |-> fb,
     value |-> v, url |-> u]

StepClick == MkStep("click", TRUE, TargetGo, <<TargetOk>>, NoValue, NoValue)
StepClickNoTarget == MkStep("click", FALSE, NoTarget, <<>>, NoValue, NoValue)
StepType == MkStep("type", TRUE, TargetGo, <<>>, UserValue, NoValue)
StepFillNoValue == MkStep("fill", TRUE, TargetGo, <<>>, NoValue, NoValue)
StepNavigate == MkStep("navigate", FALSE, NoTarget, <<>>, NoValue, UserValue)
StepScroll == MkStep("scroll", FALSE, NoTarget, <<>>, NoValue, NoValue)
StepFly == MkStep("fly", FALSE, NoTarget, <<>>, NoValue, NoValue)

\* The shapes of step the runs are explored on.
StepShapes == {StepClick, StepClickNoTarget, StepType, StepFillNoValue,
               StepNavigate, StepScroll, StepFly}

StepLists == UNION {[1..n -> StepShapes] : n \in 0..MaxSteps}

\* sequence.variables: the declared specs of the one variable the steps use,
\* in the order of the document's entries (description "" when it has none).
VarSpecSets ==
    {<<>>,
     <<[key |-> "user", hasType |-> TRUE, required |-> TRUE, description |-> ""]>>,
     <<[key |-> "user", hasType |-> FALSE, required |-> FALSE, description |-> ""]>>}

\* sequence.verification: absent, or wait_for/fallback_wait_for, timeout
\* (0 when not given) and the required flag.
NoVerification == [present |-> FALSE, targets |-> <<>>, timeout |-> 0, required |-> TRUE]
TextWelcome == [text_contains |-> "welcome", target |-> NoTarget]
Verifications ==
    {NoVerification,
     [present |-> TRUE, targets |-> <<TextWelcome>>, timeout |-> 1000, required |-> TRUE],
     [present |-> TRUE, targets |-> <<[text_contains |-> "", target |-> TargetOk]>>,
      timeout |-> 500, required |-> FALSE]}

Docs == [hasName : BOOLEAN, steps : StepLists, variables : VarSpecSets,
         url_pattern : BOOLEAN, verification : Verifications]

ValidActions == {"click", "type", "fill", "scroll", "wait", "screenshot",
                 "keypress", "navigate"}

\* a JSON null where an object is expected: a null step, a null variable spec
Null == [null |-> TRUE]

\* A document has a field when the field is in its DOMAIN; a step without
\* an action has action "".
\* const steps = sequenceJson.steps || sequenceJson.actions || []
stepsOf(d) ==
    IF "steps" \in DOMAIN d THEN d.steps
    ELSE IF "actions" \in DOMAIN d THEN d.actions ELSE <<>>

\* validateErrors without the actions alias in the test for missing steps.
validateErrorsStepsOnly(d) ==
    (IF ~d.hasName THEN {<<"name", 0>>} ELSE {})
    \cup (IF "steps" \notin DOMAIN d THEN {<<"steps", 0>>} ELSE {})
    \cup UNION {
        LET step == stepsOf(d)[k]
        IN  IF step.action = "" THEN {<<"action", k - 1>>}
            ELSE (IF step.action \notin ValidActions THEN {<<"unknown action", k - 1>>} ELSE {})
                 \cup (IF step.action \in {"click", "type", "fill"} /\ ~step.hasTarget
                       THEN {<<"target", k - 1>>} ELSE {})
                 \cup (IF step.action \in {"type", "fill"} /\ ~step.value.present
                       THEN {<<"value", k - 1>>} ELSE {})
        : k \in 1..Len(stepsOf(d))}
    \cup (IF "variables" \in DOMAIN d
          THEN {<<"type", 0>> : k \in {k \in 1..Len(d.variables) : ~d.variables[k].hasType}}
          ELSE {})

\* validateSequence(sequenceJson).errors, as the set of messages' kinds.
validateErrors(d) ==
    (IF ~d.hasName THEN {<<"name", 0>>} ELSE {})
    \cup (IF "steps" \notin DOMAIN d /\ "actions" \notin DOMAIN d THEN {<<"steps", 0>>} ELSE {})
    \cup UNION {
        LET step == stepsOf(d)[k]
        IN  IF step.action = "" THEN {<<"action", k - 1>>}
            ELSE (IF step.action \notin ValidActions THEN {<<"unknown action", k - 1>>} ELSE {})
                 \cup (IF step.action \in {"click", "type", "fill"} /\ ~step.hasTarget
                       THEN {<<"target", k - 1>>} ELSE {})
                 \cup (IF step.action \in {"type", "fill"} /\ ~step.value.present
                       THEN {<<"value", k - 1>>} ELSE {})
        : k \in 1..Len(stepsOf(d))}
    \cup (IF "variables" \in DOMAIN d
          THEN {<<"type", 0>> : k \in {k \in 1..Len(d.variables) : ~d.variables[k].hasType}}
          ELSE {})

\* validateSequence(sequenceJson): the value returned, or threw when reading
\* step.action of a null step or spec.type of a null spec raises a TypeError
validateSequence(d) ==
    IF \/ \E k \in 1..Len(stepsOf(d)) : stepsOf(d)[k] = Null
       \/ "variables" \in DOMAIN d /\ \E k \in 1..Len(d.variables) : d.variables[k] = Null
    THEN [threw |-> TRUE, valid |-> FALSE, errors |-> {}]
    ELSE [threw |-> FALSE, valid |-> validateErrors(d) = {}, errors |-> validateErrors(d)]

\* interpolate(str, variables) throws for a {{key}} with variables[key] undefined.
interpolateThrows(str, bound) == str.present /\ ~(str.refs \subseteq bound)

(***************************************************************************)
(* executeAction(browser, action, variables, elements): the set of ways    *)
(* one call can go.  cmd is the browser command it sends ("" when none),   *)
(* ok whether it returns, err what it throws.                              *)
(***************************************************************************)
Threw(e) == [ok |-> FALSE, cmd |-> "", err |-> e]
Sent(c) == {[ok |-> TRUE, cmd |-> c, err |-> ""], [ok |-> FALSE, cmd |-> c, err |-> "browser"]}

executeAction(action, bound, elems) ==
    CASE action.action = "click" ->
            IF ~action.hasTarget THEN {Threw("target")}
            ELSE IF findElementWithFallback(elems, action) = NoElement
                 THEN {Threw("Element not found")}
                 ELSE Sent("click")
      [] action.action \in {"type", "fill"} ->
            IF ~action.hasTarget THEN {Threw("target")}
            ELSE IF findElementWithFallback(elems, action) = NoElement
                 THEN {Threw("Element not found")}
                 ELSE IF interpolateThrows(action.value, bound)
                      THEN {Threw("Missing variable")}
                      ELSE IF ~action.value.present THEN {Threw("TypeError")}
                           ELSE Sent(action.action)
      [] action.action = "scroll" -> Sent("scroll")
      [] action.action = "keypress" -> Sent("keypress")
      [] action.action = "screenshot" -> Sent("screenshot")
      [] action.action = "navigate" ->
            IF interpolateThrows(action.url, bound) THEN {Threw("Missing variable")}
            ELSE Sent("open")
      [] action.action = "wait" -> {[ok |-> TRUE, cmd |-> "", err |-> ""]}
      [] OTHER -> {Threw("Unknown action")}

MutatingActions == {"click", "type", "fill", "navigate"}
MutatingCommands == {"click", "type", "fill", "open"}
InteractionCommands == {"click", "type", "fill", "scroll", "keypress", "screenshot", "open"}

(***************************************************************************)
(* runSequence(name, variables, browserOpts)                               *)
(***************************************************************************)
Configs == [retry_on_failure : BOOLEAN, max_retries : 0..MaxRetriesCfg]

\* The documents a run is started on: runSequence reads neither the name nor
\* a variable spec's type.
RunDocs == {d \in Docs : d.hasName /\ \A k \in 1..Len(d.variables) : d.variables[k].hasType}

\* const maxRetries = config.sequences?.max_retries || 2
maxRetries(c) == IF c.max_retries = 0 THEN DefaultMaxRetries ELSE c.max_retries

\* names: what the error message of a missing required variable embeds
NoResult ==
    [kind |-> "none", success |-> FALSE, steps |-> <<>>, error |-> "", step |-> -1, cause |-> "",
     names |-> <<>>]
Returned(ok, trace, e, idx, why) ==
    [kind |-> "returned", success |-> ok, steps |-> trace, error |-> e, step |-> idx, cause |-> why,
     names |-> <<>>]
\* an exception that leaves runSequence (its promise rejects)
Rejected(why) ==
    [kind |-> "threw", success |-> FALSE, steps |-> <<>>, error |-> "exception", step |-> -1, cause |-> why,
     names |-> <<>>]

StepResult(idx, a, st) == [step |-> idx, action |-> a, status |-> st]

Steps == doc.steps
Step == Steps[i + 1]

\* Math.ceil(timeout / interval), timeout = verification.timeout || 5000
maxAttempts(v) ==
    LET timeout == IF v.timeout = 0 THEN DefaultVerifyTimeout ELSE v.timeout
    IN  (timeout + PollInterval - 1) \div PollInterval

\* one poll of verifySuccess: is any target satisfied by this snapshot
Satisfied(v, page) ==
    \E k \in 1..Len(v.targets) :
        LET t == v.targets[k]
        IN  IF t.text_contains # "" THEN t.text_contains \in page.text
            ELSE findElement(page.elements, t.target) # NoElement

\* history of the commands sent to the browser
Send(cmd, idx, ok) ==
    /\ issued' = issued \cup {cmd}
    /\ cmdStep' = IF idx > cmdStep THEN idx ELSE cmdStep
    /\ interp' = IF interp = "thrown" THEN "followed" ELSE interp
    /\ sinceMut' = IF cmd = "snapshot"
                   THEN (IF ok \/ sinceMut = "clean" THEN "clean" ELSE "failed")
                   ELSE IF ok /\ cmd \in MutatingCommands THEN "pending" ELSE sinceMut
NoSend == UNCHANGED <<issued, cmdStep, sinceMut>>

\* history of one executeAction call
Executed(out) ==
    /\ lastOk' = out.ok
    /\ IF out.cmd # "" THEN Send(out.cmd, i, out.ok)
       ELSE NoSend /\ interp' = IF out.err = "Missing variable" /\ interp = "none"
                                THEN "thrown" ELSE interp

\* where the step loop goes after step idx: the next step, the verification,
\* or the successful return
Advance(idx, trace) ==
    /\ i' = idx + 1
    /\ retry' = 0
    /\ execs' = 0
    /\ poll' = 0
    /\ IF idx + 1 < Len(Steps)
       THEN pc' = "step" /\ result' = NoResult
       ELSE IF doc.verification.present /\ doc.verification.targets # <<>>
            THEN pc' = "verify" /\ result' = NoResult
            ELSE pc' = "done" /\ result' = Returned(TRUE, trace, "", -1, "")

InitRun ==
    /\ doc \in RunDocs
    /\ config \in Configs
    /\ variables \in SUBSET {"user"}
    /\ pc = "start"
    /\ i = 0
    /\ retry = 0
    /\ poll = 0
    /\ elements = <<>>
    /\ stepResults = <<>>
    /\ result = NoResult
    /\ execs = 0
    /\ issued = {}
    /\ cmdStep = -1
    /\ interp = "none"
    /\ sinceMut = "clean"
    /\ lastOk = FALSE
    /\ met = FALSE
    /\ urlOk \in (IF doc.url_pattern THEN BOOLEAN ELSE {TRUE})

\* CheckRequired without the return of line 283: the run goes on.
CheckRequiredGoesOn ==
    /\ pc = "start"
    /\ pc' = IF doc.url_pattern THEN "precondition" ELSE "snapshot"
    /\ NoSend
    /\ UNCHANGED <<doc, config, variables, i, retry, poll, elements, stepResults,
                   result, execs, interp, lastOk>>

\* lines 280-291: the first required variable without a value fails the run
\* up front, with an error made of its key and, if it has one, its description
CheckRequired ==
    /\ pc = "start"
    /\ LET missing == {k \in 1..Len(doc.variables) :
                          doc.variables[k].required /\ doc.variables[k].key \notin variables}
           spec == doc.variables[CHOOSE k \in missing : \A m \in missing : k <= m]
       IN  IF missing # {}
           THEN /\ pc' = "done"
                /\ result' = [Returned(FALSE, <<>>, "Missing required variable", -1, "")
                                  EXCEPT !.names = IF spec.description # ""
                                                   THEN <<spec.key, spec.description>>
                                                   ELSE <<spec.key>>]
           ELSE /\ pc' = IF doc.url_pattern THEN "precondition" ELSE "snapshot"
                /\ UNCHANGED result
    /\ NoSend
    /\ UNCHANGED <<doc, config, variables, i, retry, poll, elements, stepResults,
                   execs, interp, lastOk>>

\* lines 296-304: the precondition snapshot; its text is not looked at, the
\* page's URL is not asked for (urlOk is not read) and its failure is swallowed
CheckPreconditions ==
    /\ pc = "precondition"
    /\ \E ok \in BOOLEAN : Send("snapshot", -1, ok)
    /\ pc' = "snapshot"
    /\ UNCHANGED <<doc, config, variables, i, retry, poll, elements, stepResults,
                   result, execs, lastOk>>

\* InitialSnapshot with the catch of the refresh snapshot: a failure is
\* swallowed and the loop starts on the elements it has.
InitialSnapshotGoesOn ==
    /\ pc = "snapshot"
    /\ \/ /\ Send("snapshot", -1, FALSE)
          /\ UNCHANGED elements
          /\ Advance(-1, <<>>)
       \/ \E page \in Pages :
            /\ Send("snapshot", -1, TRUE)
            /\ elements' = page.elements
            /\ Advance(-1, <<>>)
    /\ UNCHANGED <<doc, config, variables, stepResults, lastOk>>

\* lines 306-313: the initial snapshot
InitialSnapshot ==
    /\ pc = "snapshot"
    /\ \/ /\ Send("snapshot", -1, FALSE)
          /\ pc' = "done"
          /\ result' = Returned(FALSE, <<>>, "Failed to get initial snapshot", -1, "browser")
          /\ UNCHANGED <<elements, i, retry, poll, execs>>
       \/ \E page \in Pages :
            /\ Send("snapshot", -1, TRUE)
            /\ elements' = page.elements
            /\ Advance(-1, <<>>)
    /\ UNCHANGED <<doc, config, variables, stepResults, lastOk>>

\* lines 322-333: the first attempt of step i returned
StepSucceeded ==
    /\ stepResults' = Append(stepResults, StepResult(i, Step.action, "ok"))
    /\ IF Step.action \in MutatingActions
       THEN /\ pc' = "refresh"
            /\ execs' = execs + 1
            /\ UNCHANGED <<i, retry, poll, result>>
       ELSE Advance(i, stepResults')

\* StepFailed without the return of line 360: with retry disabled the loop
\* goes on to the next step.
StepFailedFallsThrough(err) ==
    /\ stepResults' = Append(stepResults, StepResult(i, Step.action, "failed"))
    /\ IF config.retry_on_failure /\ maxRetries(config) > 0
       THEN /\ pc' = "retry"
            /\ result' = [result EXCEPT !.cause = err]
            /\ execs' = execs + 1
            /\ UNCHANGED <<i, retry, poll>>
       ELSE Advance(i, stepResults')

\* lines 334-361: the first attempt of step i threw err
StepFailed(err) ==
    /\ stepResults' = Append(stepResults, StepResult(i, Step.action, "failed"))
    /\ IF config.retry_on_failure /\ maxRetries(config) > 0
       THEN /\ pc' = "retry"
            /\ result' = [result EXCEPT !.cause = err]
            /\ execs' = execs + 1
            /\ UNCHANGED <<i, retry, poll>>
       ELSE /\ pc' = "done"
            /\ result' = Returned(FALSE, stepResults', "Step failed", i, err)
            /\ execs' = execs + 1
            /\ UNCHANGED <<i, retry, poll>>

\* lines 320-321: the first attempt of step i
ExecuteStep ==
    /\ pc = "step"
    /\ \E out \in executeAction(Step, variables, elements) :
         /\ Executed(out)
         /\ IF out.ok THEN StepSucceeded ELSE StepFailed(out.err)
    /\ UNCHANGED <<doc, config, variables, elements>>

\* RefreshSnapshot without the inner try: a failing refresh is caught with
\* the step's own failures and ends the run.
RefreshSnapshotFailsRun ==
    /\ pc = "refresh"
    /\ \/ /\ Send("snapshot", i, FALSE)
          /\ pc' = "done"
          /\ result' = Returned(FALSE, stepResults, "Step failed", i, "browser")
          /\ UNCHANGED <<elements, i, retry, poll, execs>>
       \/ \E page \in Pages :
            /\ Send("snapshot", i, TRUE) /\ elements' = page.elements
            /\ Advance(i, stepResults)
    /\ UNCHANGED <<doc, config, variables, stepResults, lastOk>>

\* lines 324-333: the refresh after a DOM-changing action; a failure keeps
\* the stale elements
RefreshSnapshot ==
    /\ pc = "refresh"
    /\ \/ Send("snapshot", i, FALSE) /\ UNCHANGED elements
       \/ \E page \in Pages : Send("snapshot", i, TRUE) /\ elements' = page.elements
    /\ Advance(i, stepResults)
    /\ UNCHANGED <<doc, config, variables, stepResults, lastOk>>

\* the end of one failed pass of the retry loop: the next pass, or the
\* failed return of line 357
RetryFailed ==
    IF retry + 1 < maxRetries(config)
    THEN /\ pc' = "retry"
         /\ retry' = retry + 1
         /\ UNCHANGED result
    ELSE /\ pc' = "done"
         /\ result' = Returned(FALSE, stepResults, "Step failed", i, result.cause)
         /\ UNCHANGED retry

\* lines 342-346: one pass of the retry loop starts with a snapshot
RetrySnapshot ==
    /\ pc = "retry"
    /\ \/ /\ Send("snapshot", i, FALSE)
          /\ RetryFailed
          /\ UNCHANGED elements
       \/ \E page \in Pages :
            /\ Send("snapshot", i, TRUE)
            /\ elements' = page.elements
            /\ pc' = "retryAction"
            /\ UNCHANGED <<retry, result>>
    /\ UNCHANGED <<doc, config, variables, i, poll, stepResults, execs, lastOk>>

\* RetrySucceeded recording the status of a first attempt.
RetrySucceededPlainOk ==
    /\ stepResults' = Append(stepResults, StepResult(i, Step.action, "ok"))
    /\ Advance(i, stepResults')

\* lines 348-350: a retry of step i returned
RetrySucceeded ==
    /\ stepResults' = Append(stepResults, StepResult(i, Step.action, "ok (retry)"))
    /\ Advance(i, stepResults')

\* lines 347-353: and attempts the same step again
RetryAction ==
    /\ pc = "retryAction"
    /\ \E out \in executeAction(Step, variables, elements) :
         /\ Executed(out)
         /\ IF out.ok
            THEN RetrySucceeded
            ELSE /\ RetryFailed
                 /\ execs' = execs + 1
                 /\ UNCHANGED <<i, poll, stepResults>>
    /\ UNCHANGED <<doc, config, variables, elements>>

\* lines 166-184: one poll of verifySuccess; a throwing snapshot is not
\* caught, neither there nor in runSequence
VerifyPoll ==
    /\ pc = "verify"
    /\ poll < maxAttempts(doc.verification)
    /\ poll' = poll + 1
    /\ \/ /\ Send("snapshot", -1, FALSE)
          /\ met' = FALSE
          /\ pc' = "done"
          /\ result' = Rejected("browser")
       \/ \E page \in Pages :
            /\ Send("snapshot", -1, TRUE)
            /\ met' = Satisfied(doc.verification, page)
            /\ IF Satisfied(doc.verification, page)
               THEN /\ pc' = "done"
                    /\ result' = Returned(TRUE, stepResults, "", -1, "")
               ELSE IF poll + 1 < maxAttempts(doc.verification)
                    THEN UNCHANGED <<pc, result>>
                    ELSE /\ pc' = "done"
                         /\ result' = IF doc.verification.required
                                      THEN Returned(FALSE, stepResults, "Sequence verification failed", -1, "")
                                      ELSE Returned(TRUE, stepResults, "", -1, "")
    /\ UNCHANGED <<doc, config, variables, i, retry, elements, stepResults, execs, lastOk>>

IdleK == store = <<>> /\ kconfig = 0 /\ clock = 0 /\ kcall = <<>>
IdleA == acall = <<>>

Init == InitRun /\ inflight = {} /\ IdleK /\ IdleA

Next ==
    \/ CheckRequired /\ UNCHANGED <<met, urlOk, inflight, kVars, aVars>>
    \/ CheckPreconditions /\ UNCHANGED <<met, urlOk, inflight, kVars, aVars>>
    \/ InitialSnapshot /\ UNCHANGED <<met, urlOk, inflight, kVars, aVars>>
    \/ ExecuteStep /\ UNCHANGED <<met, urlOk, inflight, kVars, aVars>>
    \/ RefreshSnapshot /\ UNCHANGED <<met, urlOk, inflight, kVars, aVars>>
    \/ RetrySnapshot /\ UNCHANGED <<met, urlOk, inflight, kVars, aVars>>
    \/ RetryAction /\ UNCHANGED <<met, urlOk, inflight, kVars, aVars>>
    \/ VerifyPoll /\ UNCHANGED <<urlOk, inflight, kVars, aVars>>

Spec == Init /\ [][Next]_vars

(***************************************************************************)
(* runSequence with each browser command in two steps: SpecAwait separates *)
(* the moment execFile starts a command (Issue) from the moment the await  *)
(* on it resumes the run with the command's outcome (Resume).              *)
(***************************************************************************)
\* The command the run sends from where it stands (cmd "" when none), the
\* step it belongs to (-1 before the loop, Len(Steps) after it) and the place
\* in the run that tells it from every other command.
Here ==
    LET sends == {o.cmd : o \in executeAction(Step, variables, elements)} \ {""}
    IN  CASE pc \in {"precondition", "snapshot"} ->
                [cmd |-> "snapshot", step |-> -1, at |-> <<pc, 0, 0>>]
          [] pc \in {"refresh", "retry"} ->
                [cmd |-> "snapshot", step |-> i, at |-> <<pc, retry, 0>>]
          [] pc \in {"step", "retryAction"} ->
                [cmd |-> IF sends = {} THEN "" ELSE CHOOSE c \in sends : TRUE,
                 step |-> i, at |-> <<pc, retry, 0>>]
          [] pc = "verify" ->
                [cmd |-> "snapshot", step |-> Len(Steps), at |-> <<pc, 0, poll>>]
          [] OTHER -> [cmd |-> "", step |-> -1, at |-> <<pc, 0, 0>>]

\* Settle for a call that is not awaited: the run goes on while the command
\* is still in flight.
SettleNotAwaited(flying, c) == flying

\* await: the run resumes only when the command has returned or failed
Settle(flying, c) == flying \ {c}

\* execFile('agent-browser', args, ...) starts the command
Issue ==
    /\ Here.cmd # ""
    /\ Here \notin inflight
    /\ inflight' = inflight \cup {Here}
    /\ UNCHANGED <<runVars, kVars, aVars>>

\* the run goes on from where it stands, past the command it sent if any
Resume ==
    /\ Here.cmd # "" => Here \in inflight
    /\ inflight' = Settle(inflight, Here)
    /\ UNCHANGED <<kVars, aVars>>

AwaitNext ==
    \/ Issue
    \/ Resume /\ CheckRequired /\ UNCHANGED <<met, urlOk>>
    \/ Resume /\ CheckPreconditions /\ UNCHANGED <<met, urlOk>>
    \/ Resume /\ InitialSnapshot /\ UNCHANGED <<met, urlOk>>
    \/ Resume /\ ExecuteStep /\ UNCHANGED <<met, urlOk>>
    \/ Resume /\ RefreshSnapshot /\ UNCHANGED <<met, urlOk>>
    \/ Resume /\ RetrySnapshot /\ UNCHANGED <<met, urlOk>>
    \/ Resume /\ RetryAction /\ UNCHANGED <<met, urlOk>>
    \/ Resume /\ VerifyPoll /\ UNCHANGED urlOk

\* the runs SpecAwait follows: no declared variable, the one the steps use
\* bound, and steps that change the DOM (click, type), that do not (scroll)
\* and that send nothing (an unknown action)
AwaitInit ==
    /\ Init
    /\ doc.variables = <<>>
    /\ variables = {"user"}
    /\ \A k \in 1..Len(doc.steps) : doc.steps[k] \in {StepClick, StepType, StepScroll, StepFly}

SpecAwait == AwaitInit /\ [][AwaitNext]_vars

\* SpecAwait with every command in flight returning or failing in the end
\* and the event loop running every continuation that is ready.
SpecLive == AwaitInit /\ [][AwaitNext]_vars /\ WF_vars(AwaitNext)

(***************************************************************************)
(* runSequence on sequences that declare variables: SpecRequired starts    *)
(* runs on documents declaring up to two variables, required or not, with  *)
(* or without a description, for every set of variables the caller binds.  *)
(***************************************************************************)
RequiredInit ==
    /\ \E specs \in [key : {"user", "pass"}, hasType : {TRUE}, required : BOOLEAN,
                      description : {"", "d1"}] :
       \E declared \in {<<>>, <<specs>>} \cup
                       {<<specs, other>> : other \in
                           [key : {"user", "pass"} \ {specs.key}, hasType : {TRUE},
                            required : BOOLEAN, description : {"", "d2"}]} :
          doc \in [hasName : {TRUE},
                   steps : {<<>>, <<StepClick>>, <<StepFly, StepScroll>>},
                   variables : {declared},
                   url_pattern : BOOLEAN,
                   verification : Verifications \ {NoVerification}]
    /\ config \in [retry_on_failure : BOOLEAN, max_retries : {1}]
    /\ variables \in SUBSET {"user", "pass"}
    /\ pc = "start" /\ i = 0 /\ retry = 0 /\ poll = 0 /\ elements = <<>>
    /\ stepResults = <<>> /\ result = NoResult /\ execs = 0 /\ issued = {}
    /\ cmdStep = -1 /\ interp = "none" /\ sinceMut = "clean" /\ lastOk = FALSE
    /\ met = FALSE /\ urlOk \in (IF doc.url_pattern THEN BOOLEAN ELSE {TRUE})
    /\ inflight = {} /\ IdleK /\ IdleA

SpecRequired == RequiredInit /\ [][Next]_vars

(***************************************************************************)
(* verifySuccess on its own: SpecVerify starts where runSequence calls it  *)
(* (line 368), every step done, for verifications runs are not explored on.*)
(***************************************************************************)
\* timeout 0: the verification gives none
VerifySpecs ==
    [present : {TRUE},
     targets : {<<TextWelcome>>, <<[text_contains |-> "", target |-> TargetOk]>>,
                <<[text_contains |-> "absent", target |-> NoTarget], TextWelcome>>, <<>>},
     timeout : {0, 1, 500, 750, 1000},
     required : BOOLEAN]

VInit ==
    /\ \E v \in VerifySpecs :
          /\ doc = [hasName |-> TRUE, steps |-> <<>>, variables |-> <<>>,
                    url_pattern |-> FALSE, verification |-> v]
          /\ IF v.targets # <<>>
             THEN pc = "verify" /\ result = NoResult
             ELSE pc = "done" /\ result = Returned(TRUE, <<>>, "", -1, "")
    /\ config \in Configs
    /\ variables = {}
    /\ i = 0 /\ retry = 0 /\ poll = 0 /\ elements = <<>> /\ stepResults = <<>>
    /\ execs = 0 /\ issued = {"snapshot"} /\ cmdStep = -1 /\ interp = "none"
    /\ sinceMut = "clean" /\ lastOk = FALSE /\ met = FALSE /\ urlOk = TRUE /\ inflight = {}
    /\ IdleK
    /\ IdleA

VNext == VerifyPoll /\ UNCHANGED <<urlOk, inflight, kVars, aVars>>

SpecVerify == VInit /\ [][VNext]_vars

(***************************************************************************)
(* The Site Knowledge Store (lib/knowledge.js).  Strings that the code     *)
(* takes apart (paths, patterns, section keys) are sequences of characters.*)
(***************************************************************************)
BaseKey == <<"_", "b", "a", "s", "e">>
PatternX == <<"/", "x", "/", "*">>
PathRoot == <<"/">>
PathX1 == <<"/", "x", "/", "1">>

Domains == {"a.com", "b.org"}
GotchaTexts == {"g1", "g2"}

\* A URL string: one new URL() rejects, or its host (with or without the
\* www. label) and its pathname.
BadUrl == [ok |-> FALSE, www |-> FALSE, host |-> "", path |-> PathRoot]
Urls == {[ok |-> TRUE, www |-> FALSE, host |-> "a.com", path |-> PathRoot],
         [ok |-> TRUE, www |-> TRUE, host |-> "a.com", path |-> PathX1],
         [ok |-> TRUE, www |-> FALSE, host |-> "b.org", path |-> PathRoot],
         BadUrl}

NullDomain == ""
\* new URL(url).hostname.replace(/^www\./, ''), null when the URL is malformed;
\* hosts are held without their www. label.
extractDomain(url) == IF url.ok THEN url.host ELSE NullDomain
extractPath(url) == IF url.ok THEN url.path ELSE PathRoot

\* The characters the first replace() of pathMatches puts a backslash before.
RegexSpecials == {".", "+", "?", "^", "$", "{", "}", "(", ")", "|", "[", "]", "\\"}
NotSlashRun == <<"[", "^", "/", "]", "+">>

RECURSIVE escapeSpecials(_)
\* str.replace(/[.+?^${}()|[\]\\]/g, '\\$&')
escapeSpecials(str) ==
    IF str = <<>> THEN <<>>
    ELSE (IF Head(str) \in RegexSpecials THEN <<"\\", Head(str)>> ELSE <<Head(str)>>)
             \o escapeSpecials(Tail(str))

RECURSIVE replaceStars(_)
\* str.replace(/\*/g, '[^/]+')
replaceStars(str) ==
    IF str = <<>> THEN <<>>
    ELSE (IF Head(str) = "*" THEN NotSlashRun ELSE <<Head(str)>>) \o replaceStars(Tail(str))

\* the pattern's special characters are left as they are
regexPatternUnescaped(pattern) == replaceStars(pattern)

\* pattern.replace(/[.+?^${}()|[\]\\]/g, '\\$&').replace(/\*/g, '[^/]+')
regexPattern(pattern) == replaceStars(escapeSpecials(pattern))

RECURSIVE test(_, _)
\* new RegExp('^' + re + '$').test(str), for the expressions regexPattern
\* builds: an escaped character, the class [^/]+, the dot (any character but
\* a line terminator, and a path holds none) and a character standing for
\* itself.
test(re, str) ==
    IF re = <<>> THEN str = <<>>
    ELSE IF Head(re) = "\\"
         THEN /\ Len(re) >= 2
              /\ str # <<>>
              /\ Head(str) = re[2]
              /\ test(SubSeq(re, 3, Len(re)), Tail(str))
    ELSE IF Len(re) >= 5 /\ SubSeq(re, 1, 5) = NotSlashRun
         THEN \E n \in 1..Len(str) :
                 /\ \A k \in 1..n : str[k] # "/"
                 /\ test(SubSeq(re, 6, Len(re)), SubSeq(str, n + 1, Len(str)))
    ELSE IF Head(re) = "."
         THEN /\ str # <<>>
              /\ test(Tail(re), Tail(str))
         ELSE /\ str # <<>>
              /\ Head(str) = Head(re)
              /\ test(Tail(re), Tail(str))

pathMatches(urlPath, pattern) == urlPath = pattern \/ test(regexPattern(pattern), urlPath)

\* The file of one domain: absent, not parseable as JSON, or a record whose
\* sections are held in key order.
NoRecord == [state |-> "absent", updated |-> 0, sections |-> <<>>]
Malformed == [state |-> "malformed", updated |-> 0, sections |-> <<>>]
Record(u, secs) == [state |-> "ok", updated |-> u, sections |-> secs]

NoEntries == [n \in {} |-> 0]
\* editor and description are "" when the section has none
Section(k, gs, els, ts) ==
    [key |-> k, gotchas |-> gs, elements |-> els, tasks |-> ts,
     editor |-> "", description |-> ""]
EmptySection(k) == Section(k, <<>>, NoEntries, NoEntries)
Task(s, f) == [success_count |-> s, failure_count |-> f]

\* the position of the section with this key, 0 when the record has none
SectionAt(rec, k) ==
    IF \E n \in 1..Len(rec.sections) : rec.sections[n].key = k
    THEN CHOOSE n \in 1..Len(rec.sections) : rec.sections[n].key = k
    ELSE 0

ContainsNothing(seq, x) == FALSE

\* Array.prototype.includes
Contains(seq, x) == \E n \in 1..Len(seq) : seq[n] = x

\* Assign keeping the earlier entry of a name both hold
AssignKeepingEarlier(a, b) ==
    [n \in DOMAIN a \cup DOMAIN b |-> IF n \in DOMAIN a THEN a[n] ELSE b[n]]

\* a later entry replaces an earlier one of the same name (Object.assign)
Assign(a, b) ==
    [n \in DOMAIN a \cup DOMAIN b |-> IF n \in DOMAIN b THEN b[n] ELSE a[n]]

maxGotchasOneMore(c) == IF c = 0 THEN DefaultMaxGotchas ELSE c + 1

\* const maxGotchas = config.knowledge?.max_gotchas_per_domain || 50
maxGotchas(c) == IF c = 0 THEN DefaultMaxGotchas ELSE c

\* What a call leaves: the store, the clock, what it returned, and whether
\* it threw instead.
Outcome(st, t, r, th) == [store |-> st, clock |-> t, ret |-> r, threw |-> th]

\* addGotcha putting the new gotcha in front of the list
addGotchaInFront(st, t, cap, url, gotcha, pattern) ==
    LET domain == extractDomain(url)
    IN  IF domain = NullDomain THEN Outcome(st, t, FALSE, FALSE)
        ELSE IF st[domain].state = "malformed" THEN Outcome(st, t, FALSE, TRUE)
        ELSE
        LET knowledge == IF st[domain].state = "ok" THEN st[domain] ELSE Record(t, <<>>)
            withSection == IF SectionAt(knowledge, pattern) = 0
                           THEN [knowledge EXCEPT !.sections = Append(@, EmptySection(pattern))]
                           ELSE knowledge
            n == SectionAt(withSection, pattern)
            gotchas == withSection.sections[n].gotchas
        IN  IF Contains(gotchas, gotcha) THEN Outcome(st, t, FALSE, FALSE)
            ELSE IF Len(gotchas) >= maxGotchas(cap) THEN Outcome(st, t, FALSE, FALSE)
            ELSE Outcome(
                    [st EXCEPT ![domain] =
                        [withSection EXCEPT !.sections[n].gotchas = <<gotcha>> \o @,
                                            !.updated = t]],
                    t + 1, TRUE, FALSE)

addGotcha(st, t, cap, url, gotcha, pattern) ==
    LET domain == extractDomain(url)
    IN  IF domain = NullDomain THEN Outcome(st, t, FALSE, FALSE)
        ELSE IF st[domain].state = "malformed" THEN Outcome(st, t, FALSE, TRUE)
        ELSE
        LET knowledge == IF st[domain].state = "ok" THEN st[domain] ELSE Record(t, <<>>)
            withSection == IF SectionAt(knowledge, pattern) = 0
                           THEN [knowledge EXCEPT !.sections = Append(@, EmptySection(pattern))]
                           ELSE knowledge
            n == SectionAt(withSection, pattern)
            gotchas == withSection.sections[n].gotchas
        IN  IF Contains(gotchas, gotcha) THEN Outcome(st, t, FALSE, FALSE)
            ELSE IF Len(gotchas) >= maxGotchas(cap) THEN Outcome(st, t, FALSE, FALSE)
            ELSE Outcome(
                    [st EXCEPT ![domain] =
                        [withSection EXCEPT !.sections[n].gotchas = Append(@, gotcha),
                                            !.updated = t]],
                    t + 1, TRUE, FALSE)

NoKnowledge == [found |-> FALSE, domain |-> "", path |-> <<>>, elements |-> NoEntries,
                editor |-> "", tasks |-> NoEntries, gotchas |-> <<>>,
                matchedPatterns |-> <<>>, description |-> ""]

\* mergeKnowledge putting a section's gotchas in front of those merged so far
mergeKnowledgeInFront(merged, section) ==
    [merged EXCEPT !.elements = Assign(@, section.elements),
                   !.editor = IF section.editor # "" THEN section.editor ELSE @,
                   !.tasks = Assign(@, section.tasks),
                   !.gotchas = section.gotchas \o @,
                   !.description = IF section.description # "" THEN section.description ELSE @]

mergeKnowledge(merged, section) ==
    [merged EXCEPT !.elements = Assign(@, section.elements),
                   !.editor = IF section.editor # "" THEN section.editor ELSE @,
                   !.tasks = Assign(@, section.tasks),
                   !.gotchas = @ \o section.gotchas,
                   !.description = IF section.description # "" THEN section.description ELSE @]

RECURSIVE MergeMatching(_, _, _)
MergeMatching(merged, sections, urlPath) ==
    IF sections = <<>> THEN merged
    ELSE LET sec == Head(sections)
         IN  IF sec.key # BaseKey /\ pathMatches(urlPath, sec.key)
             THEN MergeMatching(
                     mergeKnowledge([merged EXCEPT !.matchedPatterns = Append(@, sec.key)], sec),
                     Tail(sections), urlPath)
             ELSE MergeMatching(merged, Tail(sections), urlPath)

loadKnowledge(st, url) ==
    LET domain == extractDomain(url)
    IN  IF domain = NullDomain \/ st[domain].state # "ok" THEN NoKnowledge
        ELSE
        LET knowledge == st[domain]
            urlPath == extractPath(url)
            start == [NoKnowledge EXCEPT !.found = TRUE, !.domain = domain, !.path = urlPath]
            b == SectionAt(knowledge, BaseKey)
            withBase == IF b = 0 THEN start
                        ELSE mergeKnowledge([start EXCEPT !.matchedPatterns = <<BaseKey>>],
                                            knowledge.sections[b])
        IN  MergeMatching(withBase, knowledge.sections, urlPath)

\* updateElement starting a record for a domain that has none
updateElementCreating(st, t, url, name, selectorInfo) ==
    LET domain == extractDomain(url)
    IN  IF domain = NullDomain \/ st[domain].state = "malformed"
        THEN Outcome(st, t, FALSE, FALSE)
        ELSE
        LET knowledge == IF st[domain].state = "absent" THEN Record(t, <<>>) ELSE st[domain]
            withBase == IF SectionAt(knowledge, BaseKey) = 0
                        THEN [knowledge EXCEPT !.sections = Append(@, EmptySection(BaseKey))]
                        ELSE knowledge
            b == SectionAt(withBase, BaseKey)
            old == withBase.sections[b].elements
            entry == IF name \in DOMAIN old THEN Assign(old[name], selectorInfo)
                     ELSE selectorInfo
        IN  Outcome(
                [st EXCEPT ![domain] =
                    [withBase EXCEPT !.sections[b].elements = Assign(old, [x \in {name} |-> entry]),
                                     !.updated = t]],
                t + 1, TRUE, FALSE)

updateElement(st, t, url, name, selectorInfo) ==
    LET domain == extractDomain(url)
    IN  IF domain = NullDomain \/ st[domain].state # "ok" THEN Outcome(st, t, FALSE, FALSE)
        ELSE
        LET knowledge == st[domain]
            withBase == IF SectionAt(knowledge, BaseKey) = 0
                        THEN [knowledge EXCEPT !.sections = Append(@, EmptySection(BaseKey))]
                        ELSE knowledge
            b == SectionAt(withBase, BaseKey)
            old == withBase.sections[b].elements
            entry == IF name \in DOMAIN old THEN Assign(old[name], selectorInfo)
                     ELSE selectorInfo
        IN  Outcome(
                [st EXCEPT ![domain] =
                    [withBase EXCEPT !.sections[b].elements = Assign(old, [x \in {name} |-> entry]),
                                     !.updated = t]],
                t + 1, TRUE, FALSE)

\* recordTaskResult counting in the last section that has the task
recordTaskResultLastSection(st, t, url, taskName, success) ==
    LET domain == extractDomain(url)
    IN  IF domain = NullDomain \/ st[domain].state # "ok" THEN Outcome(st, t, FALSE, FALSE)
        ELSE
        LET knowledge == st[domain]
            having == {n \in 1..Len(knowledge.sections) :
                         taskName \in DOMAIN knowledge.sections[n].tasks}
        IN  IF having = {} THEN Outcome(st, t, FALSE, FALSE)
            ELSE
            LET n == CHOOSE m \in having : \A k \in having : m >= k
                task == knowledge.sections[n].tasks[taskName]
                counted == IF success
                           THEN [task EXCEPT !.success_count = @ + 1]
                           ELSE [task EXCEPT !.failure_count = @ + 1]
            IN  Outcome(
                    [st EXCEPT ![domain] =
                        [knowledge EXCEPT !.sections[n].tasks[taskName] = counted,
                                          !.updated = t]],
                    t + 1, TRUE, FALSE)

recordTaskResult(st, t, url, taskName, success) ==
    LET domain == extractDomain(url)
    IN  IF domain = NullDomain \/ st[domain].state # "ok" THEN Outcome(st, t, FALSE, FALSE)
        ELSE
        LET knowledge == st[domain]
            having == {n \in 1..Len(knowledge.sections) :
                         taskName \in DOMAIN knowledge.sections[n].tasks}
        IN  IF having = {} THEN Outcome(st, t, FALSE, FALSE)
            ELSE
            LET n == CHOOSE m \in having : \A k \in having : m <= k
                task == knowledge.sections[n].tasks[taskName]
                counted == IF success
                           THEN [task EXCEPT !.success_count = @ + 1]
                           ELSE [task EXCEPT !.failure_count = @ + 1]
            IN  Outcome(
                    [st EXCEPT ![domain] =
                        [knowledge EXCEPT !.sections[n].tasks[taskName] = counted,
                                          !.updated = t]],
                    t + 1, TRUE, FALSE)

RECURSIVE AddLearningsCountingAll(_, _, _, _, _, _)
\* the loop counting every learning it hands to addGotcha
AddLearningsCountingAll(st, t, cap, url, learnings, added) ==
    IF learnings = <<>> THEN Outcome(st, t, added, FALSE)
    ELSE IF Head(learnings) = ""
    THEN AddLearningsCountingAll(st, t, cap, url, Tail(learnings), added)
    ELSE LET one == addGotcha(st, t, cap, url, Head(learnings), BaseKey)
         IN  IF one.threw THEN Outcome(one.store, one.clock, added, TRUE)
             ELSE AddLearningsCountingAll(one.store, one.clock, cap, url, Tail(learnings),
                                          added + 1)

\* applyLearnings's loop over analysis.learnings: the store, the clock and
\* gotchasAdded after it; threw when an addGotcha call did
RECURSIVE AddLearnings(_, _, _, _, _, _)
AddLearnings(st, t, cap, url, learnings, added) ==
    IF learnings = <<>> THEN Outcome(st, t, added, FALSE)
    ELSE IF Head(learnings) = ""
    THEN AddLearnings(st, t, cap, url, Tail(learnings), added)
    ELSE LET one == addGotcha(st, t, cap, url, Head(learnings), BaseKey)
         IN  IF one.threw THEN Outcome(one.store, one.clock, added, TRUE)
             ELSE AddLearnings(one.store, one.clock, cap, url, Tail(learnings),
                               IF one.ret THEN added + 1 ELSE added)

NoTask == ""

\* !!value, for the values an analysis has in success: the booleans, written
\* "true" and "false", and the verdict strings of analyzeResult
truthy(value) == value \notin {"false", ""}

applyLearnings(st, t, cap, url, analysis) ==
    LET learned == AddLearnings(st, t, cap, url, analysis.learnings, 0)
    IN  IF learned.threw
        THEN Outcome(learned.store, learned.clock,
                     [gotchasAdded |-> learned.ret, taskUpdated |-> FALSE], TRUE)
        ELSE IF analysis.updateTask = NoTask
        THEN Outcome(learned.store, learned.clock,
                     [gotchasAdded |-> learned.ret, taskUpdated |-> FALSE], FALSE)
        ELSE LET rec == recordTaskResult(learned.store, learned.clock, url,
                                         analysis.updateTask, truthy(analysis.success))
             IN  Outcome(rec.store, rec.clock,
                         [gotchasAdded |-> learned.ret, taskUpdated |-> rec.ret], FALSE)

\* ---- the store's callers: one action per exported operation ----
Field(k, v) == [x \in {k} |-> v]
ElementInfos == {Field("selector", "s1"), Field("note", "n1")}
Analysis(ls, task, s) == [learnings |-> ls, updateTask |-> task, success |-> s]
Analyses == {Analysis(<<"g1", "g1">>, NoTask, "false"),
             Analysis(<<"", "g2">>, "login", "true"),
             Analysis(<<>>, "login", "false")}

SeedRecord ==
    Record(0, <<Section(BaseKey, <<"g1">>, Field("btn", Field("selector", "s0")),
                        Field("login", Task(1, 0)) @@ Field("logout", Task(0, 1))),
                Section(PatternX, <<"g2">>, Field("btn", Field("selector", "sx")),
                        Field("login", Task(0, 0)))>>)
SeedBare == Record(0, <<Section(PatternX, <<>>, NoEntries, Field("login", Task(0, 0)))>>)
Seeds == [Domains -> {NoRecord, Malformed, SeedRecord, SeedBare}]

IdleRun ==
    /\ doc = <<>> /\ config = <<>> /\ variables = {} /\ pc = "idle" /\ i = 0 /\ retry = 0
    /\ poll = 0 /\ elements = <<>> /\ stepResults = <<>> /\ result = NoResult
    /\ execs = 0 /\ issued = {} /\ cmdStep = -1 /\ interp = "none"
    /\ sinceMut = "clean" /\ lastOk = FALSE /\ met = FALSE /\ urlOk = TRUE /\ inflight = {}

WithinCap(st, c) ==
    \A d \in Domains : \A n \in 1..Len(st[d].sections) : Len(st[d].sections[n].gotchas) <= c

\* The store as some earlier session left it, under the cap configured now.
InitStore ==
    /\ kconfig \in 0..MaxGotchasCfg
    /\ store \in {st \in Seeds : st["b.org"] \in {NoRecord, SeedBare}}
    /\ WithinCap(store, kconfig)
    /\ clock = 1

InitK == InitStore /\ kcall = [op |-> "none"]

Called(name, url, arg, out) ==
    /\ clock <= MaxWrites
    /\ out.clock <= MaxWrites + 1
    /\ store' = out.store
    /\ clock' = out.clock
    /\ kcall' = [op |-> name, url |-> url, arg |-> arg, ret |-> out.ret, threw |-> out.threw]
    /\ UNCHANGED kconfig

CallAddGotcha ==
    \E url \in Urls, gotcha \in GotchaTexts, pattern \in {BaseKey, PatternX} :
        Called("addGotcha", url, [gotcha |-> gotcha, pattern |-> pattern],
               addGotcha(store, clock, kconfig, url, gotcha, pattern))

CallUpdateElement ==
    \E url \in Urls, selectorInfo \in ElementInfos :
        Called("updateElement", url, [name |-> "btn", selectorInfo |-> selectorInfo],
               updateElement(store, clock, url, "btn", selectorInfo))

CallRecordTaskResult ==
    \E url \in Urls, success \in BOOLEAN :
        Called("recordTaskResult", url, [taskName |-> "login", success |-> success],
               recordTaskResult(store, clock, url, "login", success))

CallApplyLearnings ==
    \E url \in Urls, analysis \in Analyses :
        Called("applyLearnings", url, analysis,
               applyLearnings(store, clock, kconfig, url, analysis))

CallLoadKnowledge ==
    \E url \in Urls :
        Called("loadKnowledge", url, <<>>,
               Outcome(store, clock, loadKnowledge(store, url), FALSE))

KInit == IdleRun /\ InitK /\ IdleA

KNext ==
    \/ CallAddGotcha /\ UNCHANGED <<runVars, inflight, aVars>>
    \/ CallUpdateElement /\ UNCHANGED <<runVars, inflight, aVars>>
    \/ CallRecordTaskResult /\ UNCHANGED <<runVars, inflight, aVars>>
    \/ CallApplyLearnings /\ UNCHANGED <<runVars, inflight, aVars>>
    \/ CallLoadKnowledge /\ UNCHANGED <<runVars, inflight, aVars>>

SpecK == KInit /\ [][KNext]_vars

(***************************************************************************)
(* loadKnowledge on records of every shape: SpecLoad draws a record for    *)
(* a.com and loads it for each url.                                        *)
(***************************************************************************)
PathY == <<"/", "y">>
SectionKeys == {BaseKey, PatternX, PathX1, PathY}

\* what a section can hold besides its key
Holding(gs, els, ts, ed, de) ==
    [gotchas |-> gs, elements |-> els, tasks |-> ts, editor |-> ed, description |-> de]
Contents ==
    {Holding(<<>>, NoEntries, NoEntries, "", ""),
     Holding(<<"g1">>, Field("btn", Field("selector", "s0")), Field("login", Task(1, 0)),
             "e1", "d1"),
     Holding(<<"g2", "g1">>, Field("btn", Field("selector", "sx")), Field("login", Task(0, 2)),
             "", "d2"),
     Holding(<<"g3">>, Field("lnk", Field("selector", "s3")), Field("logout", Task(0, 0)),
             "e2", "")}

Keyed(k, c) ==
    [key |-> k, gotchas |-> c.gotchas, elements |-> c.elements, tasks |-> c.tasks,
     editor |-> c.editor, description |-> c.description]

\* the section lists of at most MaxSections sections with distinct keys
SectionLists ==
    UNION {{[n \in 1..len |-> Keyed(ks[n], cs[n])] :
               ks \in {f \in [1..len -> SectionKeys] :
                          \A m, n \in 1..len : m # n => f[m] # f[n]},
               cs \in [1..len -> Contents]} :
           len \in 0..MaxSections}

LInit ==
    /\ IdleRun
    /\ IdleA
    /\ kconfig = 0
    /\ clock = 1
    /\ kcall = [op |-> "none"]
    /\ \E secs \in SectionLists :
          store = [d \in Domains |-> IF d = "a.com" THEN Record(0, secs) ELSE NoRecord]

LNext == CallLoadKnowledge /\ UNCHANGED <<runVars, inflight, aVars>>

SpecLoad == LInit /\ [][LNext]_vars

(***************************************************************************)
(* The command layer: a type or fill step's value from the sequence        *)
(* variables to the argument vector execFile receives.  Strings are        *)
(* sequences of characters.                                                *)
(***************************************************************************)
Alphabet == {"a", " ", "\"", "'", "\\"}
Values == UNION {[1..n -> Alphabet] : n \in 0..MaxValueLen}

\* a value template: literal characters and {{key}} references
Lit(c) == [kind |-> "lit", text |-> c]
Ref(k) == [kind |-> "var", text |-> k]
Templates == {<<Ref("user")>>, <<Lit("a"), Ref("user")>>}

\* String.prototype.replace(/c/g, to) for a one-character pattern
RECURSIVE ReplaceAll(_, _, _)
ReplaceAll(str, c, to) ==
    IF str = <<>> THEN <<>>
    ELSE (IF Head(str) = c THEN to ELSE <<Head(str)>>) \o ReplaceAll(Tail(str), c, to)

\* val.replace(/\\/g, '\\\\').replace(/"/g, '\\"')
Escaped(val) == ReplaceAll(ReplaceAll(val, "\\", <<"\\", "\\">>), "\"", <<"\\", "\"">>)

MissingVariable == <<"Missing variable">>
\* the interpolated string, or MissingVariable when a referenced key is unbound
RECURSIVE interpolate(_, _)
interpolate(str, vs) ==
    IF str = <<>> THEN <<>>
    ELSE LET rest == interpolate(Tail(str), vs)
         IN  IF Head(str).kind = "var" /\ Head(str).text \notin DOMAIN vs THEN MissingVariable
             ELSE IF rest = MissingVariable THEN MissingVariable
             ELSE IF Head(str).kind = "var" THEN Escaped(vs[Head(str).text]) \o rest
             ELSE <<Head(str).text>> \o rest

\* `${method} ${ref} "${text.replace(/"/g, '\\"')}"`
CommandLine(method, ref, text) ==
    Chars(method) \o <<" ">> \o Chars(ref) \o <<" ", "\"">>
        \o ReplaceAll(text, "\"", <<"\\", "\"">>) \o <<"\"">>

Push(args, current) == IF current # <<>> THEN Append(args, current) ELSE args

RECURSIVE ParseFrom(_, _, _, _, _)
ParseFrom(command, args, current, inQuote, quoteChar) ==
    IF command = <<>> THEN Push(args, current)
    ELSE LET char == Head(command)
             rest == Tail(command)
         IN  IF inQuote
             THEN IF char = quoteChar
                  THEN ParseFrom(rest, args, current, FALSE, quoteChar)
                  ELSE ParseFrom(rest, args, Append(current, char), TRUE, quoteChar)
             ELSE IF char = "\"" \/ char = "'"
             THEN ParseFrom(rest, args, current, TRUE, char)
             ELSE IF char = " "
             THEN ParseFrom(rest, Push(args, current), <<>>, FALSE, quoteChar)
             ELSE ParseFrom(rest, args, Append(current, char), FALSE, quoteChar)

_parseArgs(command) == ParseFrom(command, <<>>, <<>>, FALSE, "")

\* const args = ['--cdp', String(this.cdpPort), ...this._parseArgs(command)]
_exec(command) == <<Chars("--cdp"), Chars("9222")>> \o _parseArgs(command)

\* a step's value and the variables of the run, before the step executes
Pending(template, vs) ==
    [method |-> "none", value |-> template, vars |-> vs, threw |-> FALSE, argv |-> <<>>]

\* executeAction's type and fill cases, down to the execFile call
ExecValueStep(method) ==
    /\ acall.method = "none"
    /\ LET value == interpolate(acall.value, acall.vars)
       IN  acall' = IF value = MissingVariable
                    THEN [acall EXCEPT !.method = method, !.threw = TRUE]
                    ELSE [acall EXCEPT !.method = method,
                                       !.argv = _exec(CommandLine(method, "@e1", value))]

ExecType == ExecValueStep("type")
ExecFill == ExecValueStep("fill")

AInit ==
    /\ IdleRun
    /\ IdleK
    /\ \E template \in Templates, vs \in [{"user"} -> Values] \cup {NoEntries} :
          acall = Pending(template, vs)

ANext ==
    \/ ExecType /\ UNCHANGED <<runVars, inflight, kVars>>
    \/ ExecFill /\ UNCHANGED <<runVars, inflight, kVars>>

SpecArgs == AInit /\ [][ANext]_vars

(***************************************************************************)
(* _parseArgs on its own: SpecParse parses command strings written as up   *)
(* to MaxArgs plain or quoted pieces with one or two spaces between them.  *)
(***************************************************************************)
MaxArgs == 2
Plain(text) == [quote |-> "", text |-> text]
Quoted(q, text) == [quote |-> q, text |-> text]
\* the pieces: plain words, and quoted texts without the quote character
Pieces ==
    {Plain(<<"a">>), Plain(<<"-", "i">>)}
        \cup {Quoted(q, text) : q \in {"\""},
                                text \in {<<>>, <<"a">>, <<" ">>, <<"a", " ", " ", "b">>, <<"'">>}}
        \cup {Quoted(q, text) : q \in {"'"},
                                text \in {<<>>, <<"a">>, <<" ">>, <<"a", " ", " ", "b">>, <<"\"">>}}

\* the piece as it is written in a command
Written(piece) ==
    IF piece.quote = "" THEN piece.text ELSE <<piece.quote>> \o piece.text \o <<piece.quote>>

RECURSIVE CommandOf(_, _)
\* the pieces written one after the other, gap between two of them
CommandOf(pieces, gap) ==
    IF pieces = <<>> THEN <<>>
    ELSE IF Len(pieces) = 1 THEN Written(pieces[1])
    ELSE Written(pieces[1]) \o gap \o CommandOf(Tail(pieces), gap)

ParseInit ==
    /\ IdleRun
    /\ IdleK
    /\ \E pieces \in UNION {[1..n -> Pieces] : n \in 0..MaxArgs}, gap \in {<<" ">>, <<" ", " ">>} :
          acall = [pieces |-> pieces, command |-> CommandOf(pieces, gap), called |-> FALSE,
                   argv |-> <<>>]

Parse ==
    /\ ~acall.called
    /\ acall' = [acall EXCEPT !.called = TRUE, !.argv = _parseArgs(acall.command)]
    /\ UNCHANGED <<runVars, inflight, kVars>>

SpecParse == ParseInit /\ [][Parse]_vars

(***************************************************************************)
(* One step against one snapshot: SpecStep follows the first attempt of a  *)
(* click, type or fill step (sequence.js 320-335) through executeAction,   *)
(* for every short element list, target and list of fallback targets.      *)
(***************************************************************************)
ElementPool ==
    {ElGo, ElGoOff, ElOk,
     [role |-> "link", name |-> "Book", ref |-> 3, nth |-> 1, disabled |-> FALSE],
     [role |-> "button", name |-> "OK", ref |-> 4, nth |-> 0, disabled |-> FALSE]}

TargetPool ==
    {TargetGo, TargetOk,
     [role |-> "", name |-> "", name_contains |-> "OK", nth |-> -1],
     [role |-> "", name |-> "", name_contains |-> "k", nth |-> 1],
     [role |-> "button", name |-> "", name_contains |-> "", nth |-> 0],
     [role |-> "link", name |-> "Book", name_contains |-> "Go", nth |-> -1]}

\* the key of the first {{key}} of str without a value: what the message of
\* interpolate's Error embeds
missingKey(str, vs) ==
    LET unbound == {n \in 1..Len(str) : str[n].kind = "var" /\ str[n].text \notin DOMAIN vs}
    IN  str[CHOOSE n \in unbound : \A m \in unbound : n <= m].text

\* a step, the elements of the last snapshot and the run's variables, before
\* the attempt
Attempt(a, elems, t, fbs, v, vs) ==
    [action |-> a, elems |-> elems, target |-> t, fallback_targets |-> fbs, value |-> v,
     vars |-> vs, status |-> "", err |-> "", names |-> <<>>, tried |-> <<>>,
     found |-> NoElement, cmd |-> "", ref |-> 0, text |-> <<>>]

\* what the attempt looked up: findElement for each target, the primary first,
\* and findElementWithFallback
Resolved ==
    [acall EXCEPT
        !.tried = [n \in 1..(1 + Len(acall.fallback_targets)) |->
                      findElement(acall.elems, (<<acall.target>> \o acall.fallback_targets)[n])],
        !.found = findElementWithFallback(acall.elems, acall)]

\* the browser command of the attempt returned (status ok) or failed
Commanded(call, c, ref, text) ==
    \E ok \in BOOLEAN :
        acall' = [call EXCEPT !.cmd = c, !.ref = ref, !.text = text,
                              !.status = IF ok THEN "ok" ELSE "failed",
                              !.err = IF ok THEN "" ELSE "browser"]

Failed(call, e, keys) == acall' = [call EXCEPT !.status = "failed", !.err = e, !.names = keys]

\* lines 90-95 and 320-335: a click step
AttemptClick ==
    /\ acall.status = ""
    /\ acall.action = "click"
    /\ IF Resolved.found = NoElement
       THEN Failed(Resolved, "Element not found", <<>>)
       ELSE Commanded(Resolved, "click", Resolved.found.ref, <<>>)

\* AttemptValue with the reference left as it is when it has no value.
AttemptValueTypesLiteral ==
    /\ acall.status = ""
    /\ acall.action \in {"type", "fill"}
    /\ IF Resolved.found = NoElement
       THEN Failed(Resolved, "Element not found", <<>>)
       ELSE Commanded(Resolved, acall.action, Resolved.found.ref,
                      IF interpolate(acall.value, acall.vars) = MissingVariable
                      THEN <<"{", "{">> ELSE interpolate(acall.value, acall.vars))

\* lines 97-111 and 320-335: a type or fill step
AttemptValue ==
    /\ acall.status = ""
    /\ acall.action \in {"type", "fill"}
    /\ IF Resolved.found = NoElement
       THEN Failed(Resolved, "Element not found", <<>>)
       ELSE IF interpolate(acall.value, acall.vars) = MissingVariable
            THEN Failed(Resolved, "Missing variable", <<missingKey(acall.value, acall.vars)>>)
            ELSE Commanded(Resolved, acall.action, Resolved.found.ref,
                           interpolate(acall.value, acall.vars))

StepInit ==
    /\ IdleRun
    /\ IdleK
    /\ \/ \E elems \in UNION {[1..n -> ElementPool] : n \in 0..MaxElements},
             t \in TargetPool,
             fbs \in UNION {[1..n -> TargetPool] : n \in 0..2} :
             acall = Attempt("click", elems, t, fbs, <<>>, NoEntries)
       \/ \E a \in {"type", "fill"},
             elems \in {<<>>, <<ElGo>>, <<ElGoOff, ElOk>>},
             fbs \in {<<>>, <<TargetOk>>},
             v \in {<<Lit("a")>>, <<Ref("user")>>, <<Ref("user"), Ref("pass")>>,
                    <<Lit("a"), Ref("pass"), Ref("user")>>},
             vs \in UNION {[keys -> {<<"a">>}] : keys \in SUBSET {"user", "pass"}} :
             acall = Attempt(a, elems, TargetGo, fbs, v, vs)

StepNext ==
    \/ AttemptClick /\ UNCHANGED <<runVars, inflight, kVars>>
    \/ AttemptValue /\ UNCHANGED <<runVars, inflight, kVars>>

SpecStep == StepInit /\ [][StepNext]_vars

(***************************************************************************)
(* validateSequence on its own: SpecValidate calls it on documents with    *)
(* and without steps, actions and variables, whose entries may be null.    *)
(***************************************************************************)
StepEntries ==
    StepShapes \cup
    {Null,
     MkStep("", TRUE, TargetGo, <<>>, UserValue, NoValue),
     MkStep("type", FALSE, NoTarget, <<>>, UserValue, NoValue),
     MkStep("wait", FALSE, NoTarget, <<>>, NoValue, NoValue),
     MkStep("keypress", FALSE, NoTarget, <<>>, NoValue, NoValue),
     MkStep("screenshot", FALSE, NoTarget, <<>>, NoValue, NoValue)}

ValidationDocs ==
    {[hasName |-> named] @@ steps @@ actions @@ specs :
        named \in BOOLEAN,
        steps \in {NoEntries} \cup
                  {[steps |-> list] : list \in UNION {[1..n -> StepEntries] : n \in 0..MaxSteps}},
        actions \in {NoEntries} \cup
                    {[actions |-> list] : list \in {<<>>, <<StepScroll>>, <<StepFly>>, <<Null>>}},
        specs \in {NoEntries} \cup
                  {[variables |-> list] : list \in VarSpecSets \cup
                      {<<Null>>, <<[key |-> "user", hasType |-> TRUE, required |-> TRUE, description |-> ""], Null>>}}}

ValidateInit ==
    /\ IdleRun
    /\ IdleK
    /\ \E d \in ValidationDocs : acall = [sequenceJson |-> d, called |-> FALSE, ret |-> <<>>]

Validate ==
    /\ ~acall.called
    /\ acall' = [acall EXCEPT !.called = TRUE, !.ret = validateSequence(acall.sequenceJson)]
    /\ UNCHANGED <<runVars, inflight, kVars>>

SpecValidate == ValidateInit /\ [][Validate]_vars

(***************************************************************************)
(* pathMatches on its own: one call on a path and a pattern of up to       *)
(* MaxPathLen characters, and on the pairs of the test suite.              *)
(***************************************************************************)
MaxPathLen == 3
PathAlphabet == {"/", "a", "*", "."}
PathStrings == UNION {[1..n -> PathAlphabet] : n \in 0..MaxPathLen}
TestedPairs ==
    {<<Chars("/user/123/profile"), Chars("/user/*/profile")>>,
     <<Chars("/user/profile"), Chars("/user/*/profile")>>,
     <<Chars("/a/b/c"), Chars("/*/*/c")>>}

MatchInit ==
    /\ IdleRun
    /\ IdleK
    /\ \E pair \in (PathStrings \X PathStrings) \cup TestedPairs :
           acall = [urlPath |-> pair[1], pattern |-> pair[2], called |-> FALSE, ret |-> FALSE]

Match ==
    /\ ~acall.called
    /\ acall' = [acall EXCEPT !.called = TRUE,
                              !.ret = pathMatches(acall.urlPath, acall.pattern)]
    /\ UNCHANGED <<runVars, inflight, kVars>>

SpecMatch == MatchInit /\ [][Match]_vars

(***************************************************************************)
(* analyzeResult(output, url, taskName), src/src/cli.js: the heuristic     *)
(* classification of a task's output. A character outside ASCII is named  *)
(* by its code point.                                                      *)
(***************************************************************************)
successIndicators ==
    <<<<"s", "u", "c", "c", "e", "s", "s", "f", "u", "l", "l", "y">>,
     <<"c", "o", "m", "p", "l", "e", "t", "e", "d">>,
     <<"d", "o", "n", "e">>,
     <<"t", "a", "s", "k", " ", "c", "o", "m", "p", "l", "e", "t", "e">>,
     <<"U+6210", "U+529F">>>>
failureIndicators ==
    <<<<"f", "a", "i", "l", "e", "d">>,
     <<"e", "r", "r", "o", "r">>,
     <<"c", "o", "u", "l", "d", " ", "n", "o", "t">>,
     <<"u", "n", "a", "b", "l", "e", " ", "t", "o">>,
     <<"t", "i", "m", "e", "o", "u", "t">>,
     <<"U+5931", "U+8D25">>,
     <<"n", "o", "t", " ", "f", "o", "u", "n", "d">>,
     <<"t", "i", "m", "e", "d", " ", "o", "u", "t">>>>

\* indicators.some(s => lower.includes(s))
some(lower, indicators) == \E k \in 1..Len(indicators) : includes(lower, indicators[k])

\* the two learnings analyzeResult can push, by their first words
LearnedTimeout == "Operation timed out"
LearnedNotFound == "Element not found"
\* suggestedRetry: undefined
NoRetry == ""

\* analyzeResult looking for a success keyword first
analyzeResultSuccessFirst(output) ==
    LET lower == toLowerCase(output)
        hasSuccess == some(lower, successIndicators)
        hasFailure == some(lower, failureIndicators)
    IN  [success |-> IF hasSuccess THEN "success" ELSE IF hasFailure THEN "failure" ELSE "unknown",
         confidence |-> IF hasSuccess \/ hasFailure THEN "low" ELSE "none",
         learnings |-> <<>>,
         suggestedRetry |-> IF hasFailure THEN "retry with fresh snapshot" ELSE NoRetry]

analyzeResult(output) ==
    LET lower == toLowerCase(output)
        hasSuccess == some(lower, successIndicators)
        hasFailure == some(lower, failureIndicators)
        timedOut == includes(lower, Chars("timeout")) \/ includes(lower, Chars("timed out"))
        notFound == includes(lower, Chars("not found"))
                        \/ includes(lower, Chars("element not found"))
    IN  [success |-> IF hasFailure THEN "failure" ELSE IF hasSuccess THEN "success" ELSE "unknown",
         confidence |-> IF hasFailure \/ hasSuccess THEN "low" ELSE "none",
         learnings |-> (IF hasFailure /\ timedOut THEN <<LearnedTimeout>> ELSE <<>>)
                          \o (IF hasFailure /\ notFound THEN <<LearnedNotFound>> ELSE <<>>),
         suggestedRetry |-> IF hasFailure THEN "retry with fresh snapshot" ELSE NoRetry]

\* The outputs analysed: up to MaxWords pieces of text, one after the other.
MaxWords == 3
OutputWords ==
    {<<"D", "o", "n", "e">>,
     <<"E", "R", "R", "O", "R">>,
     <<"T", "i", "m", "e", "d", " ", "o", "u", "t">>,
     <<"N", "o", "t", " ", "F", "o", "u", "n", "d">>,
     <<"d">>,
     <<"o", "n", "e">>,
     <<" ", "o", "k", " ">>,
     <<"U+6210", "U+529F">>}
RECURSIVE Joined(_)
Joined(pieces) == IF pieces = <<>> THEN <<>> ELSE Head(pieces) \o Joined(Tail(pieces))
Outputs == {Joined(pieces) : pieces \in UNION {[1..n -> OutputWords] : n \in 0..MaxWords}}

AnalyzeInit ==
    /\ IdleRun
    /\ IdleK
    /\ \E output \in Outputs : acall = [output |-> output, called |-> FALSE, ret |-> <<>>]

Analyze ==
    /\ ~acall.called
    /\ acall' = [acall EXCEPT !.called = TRUE, !.ret = analyzeResult(acall.output)]
    /\ UNCHANGED <<runVars, inflight, kVars>>

SpecAnalyze == AnalyzeInit /\ [][Analyze]_vars

(***************************************************************************)
(* analyzeResult feeding applyLearnings: SpecLearn analyses an output and  *)
(* applies the analysis, with the name of the task to update, to a store.  *)
(***************************************************************************)
AnalyzeAndApply ==
    \E url \in Urls, output \in OutputWords :
        LET analysis == analyzeResult(output) @@ [updateTask |-> "login"]
        IN  Called("applyLearnings", url, analysis,
                   applyLearnings(store, clock, kconfig, url, analysis))

LearnNext == AnalyzeAndApply /\ UNCHANGED <<runVars, inflight, aVars>>

SpecLearn == KInit /\ [][LearnNext]_vars

(***************************************************************************)
(* Two processes in addGotcha at once (two `knowledge add-gotcha` command  *)
(* lines): SpecRace separates the read of the domain's file from the write *)
(* of the record computed from what was read. The two file operations are  *)
(* each taken as one step.                                                 *)
(***************************************************************************)
Procs == {1, 2}

RaceInit ==
    /\ IdleRun
    /\ IdleA
    /\ InitStore
    /\ \E url \in {u \in Urls : u.ok} :
          kcall \in [Procs -> [at : {"read"}, url : {url}, gotcha : GotchaTexts,
                               seen : {NoRecord}, ret : {FALSE}, threw : {FALSE}]]

\* lines 376-383: fs.existsSync and fs.readFileSync give the process the
\* file as it is now
ReadFile(p) ==
    /\ kcall[p].at = "read"
    /\ kcall' = [kcall EXCEPT ![p].at = "write", ![p].seen = store[kcall[p].url.host]]
    /\ UNCHANGED <<store, clock, kconfig>>

\* lines 377-406: the record is computed from what was read; when a gotcha
\* was pushed, fs.writeFileSync replaces the file with that record
WriteFile(p) ==
    /\ kcall[p].at = "write"
    /\ LET d == kcall[p].url.host
           out == addGotcha([store EXCEPT ![d] = kcall[p].seen], clock, kconfig,
                            kcall[p].url, kcall[p].gotcha, BaseKey)
       IN  /\ store' = IF out.ret THEN [store EXCEPT ![d] = out.store[d]] ELSE store
           /\ clock' = out.clock
           /\ kcall' = [kcall EXCEPT ![p].at = "done", ![p].ret = out.ret,
                                     ![p].threw = out.threw]
    /\ UNCHANGED kconfig

RaceNext ==
    \/ \E p \in Procs : ReadFile(p) /\ UNCHANGED <<runVars, inflight, aVars>>
    \/ \E p \in Procs : WriteFile(p) /\ UNCHANGED <<runVars, inflight, aVars>>

SpecRace == RaceInit /\ [][RaceNext]_vars

(***************************************************************************)
(* Claims about runSequence, checked under Spec.                           *)
(***************************************************************************)
Last(seq) == seq[Len(seq)]

\* A step has failed for good: the trace ends with a failed entry and no
\* pass of the retry loop is pending.
Exhausted ==
    /\ stepResults # <<>>
    /\ Last(stepResults).status = "failed"
    /\ pc \notin {"retry", "retryAction"}

\* C1: when step k fails with retry disabled, or with every retry failing
\* too, the run has returned success = false with an error naming step k,
\* no command of a later step and no verification poll was sent, and the
\* returned trace has no entry for an index above k.
C1_FailedStepStopsRun ==
    Exhausted =>
        LET k == Last(stepResults).step
        IN  /\ pc = "done"
            /\ result.kind = "returned"
            /\ ~result.success
            /\ result.error = "Step failed"
            /\ result.step = k
            /\ result.steps = stepResults
            /\ \A n \in 1..Len(result.steps) : result.steps[n].step <= k
            /\ cmdStep <= k
            /\ poll = 0
            /\ (~config.retry_on_failure => execs = 1)

\* C1 witness: step 0 of a two-step sequence with a verification failed
\* after its retries, and the run is over.
C1_Witness ==
    /\ pc = "done"
    /\ Exhausted
    /\ config.retry_on_failure
    /\ Len(doc.steps) = 2
    /\ doc.verification.present
    /\ Last(stepResults).step = 0
    /\ execs > 1

\* Every step has an entry with status ok or ok (retry).
AllStepsOk ==
    \A k \in 0..(Len(doc.steps) - 1) :
        \E n \in 1..Len(stepResults) :
            stepResults[n].step = k /\ stepResults[n].status \in {"ok", "ok (retry)"}

\* C2: with retry enabled and max_retries = m >= 1, the run gives up on a
\* step only after m failed retries; a retry that succeeds is recorded as
\* "ok (retry)" and the loop goes on to the next step (or to verification,
\* or returns success); and a run whose steps all ended ok returns
\* success = true unless the verification failed.
C2_RetrySuccessContinues ==
    /\ [](pc = "done" /\ result.error = "Step failed" /\ config.retry_on_failure
            /\ config.max_retries >= 1
          => retry = config.max_retries - 1)
    /\ [](pc = "done" /\ AllStepsOk
            /\ (\E n \in 1..Len(stepResults) : stepResults[n].status = "ok (retry)")
          => \/ result.kind = "returned" /\ result.success /\ result.steps = stepResults
             \/ result.kind = "returned" /\ result.error = "Sequence verification failed"
             \/ result.kind = "threw" /\ poll > 0)
    /\ [][pc = "retryAction" /\ lastOk'
          => /\ stepResults' = Append(stepResults, StepResult(i, Step.action, "ok (retry)"))
             /\ i' = i + 1
             /\ IF i + 1 < Len(doc.steps) THEN pc' = "step"
                ELSE IF doc.verification.present THEN pc' = "verify"
                ELSE pc' = "done" /\ result'.success]_vars

\* C2 witness: step 0 succeeded on the last retry max_retries = 2 allows,
\* the next step ran, and the run returned success = true.
C2_Witness ==
    /\ pc = "done"
    /\ result.success
    /\ config.retry_on_failure
    /\ config.max_retries = 2
    /\ Len(stepResults) = 3
    /\ stepResults[1].status = "failed"
    /\ stepResults[2].status = "ok (retry)"
    /\ stepResults[3].step = 1
    /\ doc.steps[1].action = "type"

\* C3 (as claimed): a step is executed at most 1 + max_retries times with
\* retry enabled and once with retry disabled.  Fails for max_retries = 0.
C3_AtMostOnePlusMaxRetries ==
    execs <= (IF config.retry_on_failure THEN 1 + config.max_retries ELSE 1)

\* C4 (as claimed): a sequence validateSequence rejects has none of its
\* steps sent to the browser.  Fails: runSequence does not validate.
C4_RejectedNeverExecuted ==
    ~validateSequence(doc).valid => issued \cap InteractionCommands = {}

\* C5 (as claimed): once interpolate has thrown, the run is over and no
\* command, snapshot included, follows.  Fails with retry enabled.
C5_InterpolationErrorStops ==
    /\ interp = "thrown" => pc = "done" /\ ~result.success /\ execs = 1
    /\ interp # "followed"

\* C7 (as claimed): a step resolves its target only when a snapshot was
\* requested after the last successful DOM-mutating command.  Fails after a
\* retry that succeeded.
C7_RefreshBeforeNextStep ==
    pc = "step" => sinceMut # "pending"

\* C16: when every step succeeded and no poll of the verification met a
\* criterion, runSequence returns success = false with the error "Sequence
\* verification failed" (no step index, every step with an ok or ok (retry)
\* entry), or success = true when the verification has required = false.
C16_VerificationFailure ==
    pc = "done" /\ poll > 0 /\ ~met =>
        /\ AllStepsOk
        /\ result.kind = "returned"
        /\ result.steps = stepResults
        /\ IF doc.verification.required
           THEN ~result.success /\ result.error = "Sequence verification failed"
                /\ result.step = -1
           ELSE result.success

\* C17: every run ends by returning a result; one that did not succeed has
\* success = false, an error string and the step trace collected so far, and
\* no failure of a browser command leaves runSequence as an exception.
C17_NoExceptionEscapes ==
    pc = "done" =>
        /\ result.kind = "returned"
        /\ ~result.success => result.error # "" /\ result.steps = stepResults

\* C20: no step and no verification poll is attempted before an initial
\* snapshot has been parsed (elements is empty only until then: every page
\* has elements), and a run that ends without one after sending a command
\* (the initial snapshot failed) returns success = false with an empty step
\* trace and the error "Failed to get initial snapshot", having executed no
\* action and sent nothing but snapshot requests, whatever the retry setting.
C20_InitialSnapshotFailureAborts ==
    /\ pc \in {"step", "refresh", "retry", "retryAction", "verify"} => elements # <<>>
    /\ pc = "done" /\ elements = <<>> /\ issued # {} =>
          /\ result.kind = "returned"
          /\ ~result.success
          /\ result.steps = <<>>
          /\ result.error = "Failed to get initial snapshot"
          /\ stepResults = <<>>
          /\ execs = 0
          /\ issued = {"snapshot"}

\* C20 witness: with retry enabled and max_retries = 2, the initial snapshot
\* of a two-step sequence failed after the precondition snapshot and the run
\* is over.
C20_Witness ==
    /\ pc = "done"
    /\ result.error = "Failed to get initial snapshot"
    /\ config.retry_on_failure
    /\ config.max_retries = 2
    /\ Len(doc.steps) = 2
    /\ doc.url_pattern
    /\ elements = <<>>

\* C24: when the snapshot refresh after a successful click, type, fill or
\* navigate step fails, the step's entry stays ok, the element list is left
\* as it was, and the run goes on to the next step (or, after the last step,
\* to the verification or the successful return) instead of failing.
C24_RefreshFailureTolerated ==
    [][pc = "refresh" /\ sinceMut' = "failed" =>
          /\ Step.action \in {"click", "type", "fill", "navigate"}
          /\ stepResults' = stepResults
          /\ Last(stepResults) = StepResult(i, Step.action, "ok")
          /\ elements' = elements
          /\ i' = i + 1
          /\ IF i + 1 < Len(doc.steps) THEN pc' = "step" /\ result'.kind = "none"
             ELSE IF doc.verification.present THEN pc' = "verify" /\ result'.kind = "none"
             ELSE pc' = "done" /\ result'.kind = "returned" /\ result'.success
                  /\ result'.steps = stepResults]_vars

\* C24 witness: the refresh after the click of step 0 failed and the run is
\* at step 1 with the elements of the initial snapshot.
C24_Witness ==
    /\ pc = "step"
    /\ i = 1
    /\ sinceMut = "failed"
    /\ doc.steps[1].action = "click"
    /\ stepResults = <<StepResult(0, "click", "ok")>>
    /\ elements = PageForm.elements
    /\ ~config.retry_on_failure

(***************************************************************************)
(* Claims about one step against one snapshot, checked under SpecStep.     *)
(***************************************************************************)
\* the positions of the {{key}} references of the step's value without a value
Unbound ==
    {n \in 1..Len(acall.value) :
        acall.value[n].kind = "var" /\ acall.value[n].text \notin DOMAIN acall.vars}

\* C21 as stated: an attempted type or fill step whose value references a
\* variable without a value fails with the error "Missing variable" naming
\* such a variable, and sends no command.
C21_UnboundReferenceNamed ==
    acall.action \in {"type", "fill"} /\ acall.status # "" /\ Unbound # {} =>
        /\ acall.status = "failed"
        /\ acall.cmd = ""
        /\ acall.err = "Missing variable"
        /\ \E n \in Unbound : acall.names = <<acall.value[n].text>>

\* C21 amended: such a step fails and sends no type or fill command; when its
\* target or a fallback target resolves to an element the error is "Missing
\* variable" naming the first reference without a value, and otherwise it is
\* "Element not found".
C21_UnboundReferenceAborts ==
    acall.action \in {"type", "fill"} /\ acall.status # "" /\ Unbound # {} =>
        /\ acall.status = "failed"
        /\ acall.cmd = ""
        /\ acall.text = <<>>
        /\ IF \E n \in 1..Len(acall.tried) : acall.tried[n] # NoElement
           THEN /\ acall.err = "Missing variable"
                /\ \E n \in Unbound :
                      /\ acall.names = <<acall.value[n].text>>
                      /\ \A m \in Unbound : n <= m
           ELSE acall.err = "Element not found" /\ acall.names = <<>>

\* C21 witness: a fill step resolved through its fallback target, its value
\* references "pass", which is bound, and then "user", which is not.
C21_Witness ==
    /\ acall.action = "fill"
    /\ acall.status = "failed"
    /\ acall.found = ElOk
    /\ acall.tried[1] = NoElement
    /\ Len(acall.value) = 3
    /\ DOMAIN acall.vars = {"pass"}
    /\ acall.names = <<"user">>

\* C22: findElementWithFallback returns the findElement match of the earliest
\* target, the primary first and then the fallbacks in listed order, that
\* matches an element, and nothing when none matches; a click step whose
\* primary target does not resolve but whose fallback does sends the click to
\* the fallback's element and is recorded ok once that command returns, and a
\* click step none of whose targets resolves fails without a command.
C22_FallbackOrder ==
    acall.action = "click" /\ acall.status # "" =>
        LET matching == {n \in 1..Len(acall.tried) : acall.tried[n] # NoElement}
        IN  /\ Len(acall.tried) = 1 + Len(acall.fallback_targets)
            /\ IF matching = {}
               THEN /\ acall.found = NoElement
                    /\ acall.status = "failed" /\ acall.err = "Element not found"
                    /\ acall.cmd = ""
               ELSE /\ \E n \in matching :
                         /\ \A m \in matching : n <= m
                         /\ acall.found = acall.tried[n]
                    /\ acall.cmd = "click" /\ acall.ref = acall.found.ref
                    /\ acall.found \in {acall.elems[k] : k \in 1..Len(acall.elems)}
                    /\ ~acall.found.disabled
                    /\ acall.status = (IF acall.err = "browser" THEN "failed" ELSE "ok")

\* C22 witness: the primary target and the first fallback matched nothing,
\* the second fallback matched the second element, and the step is ok.
C22_Witness ==
    /\ acall.action = "click"
    /\ acall.status = "ok"
    /\ Len(acall.tried) = 3
    /\ Len(acall.elems) = 2
    /\ acall.tried[1] = NoElement
    /\ acall.tried[2] = NoElement
    /\ acall.found = acall.elems[2]
    /\ acall.elems[1] # acall.elems[2]
    /\ acall.ref = acall.elems[2].ref

\* C23: findElement returns the first element, in sequence order, that is
\* not disabled and satisfies every field the target gives (role equal, name
\* equal, name_contains a substring of the name whatever the case of either,
\* nth equal), never a disabled element, and nothing when no element
\* qualifies.
C23_FirstQualifyingElement ==
    \A n \in 1..Len(acall.tried) :
        LET target == (<<acall.target>> \o acall.fallback_targets)[n]
            lower(str) == toLowerCase(Chars(str))
            qualifies(el) ==
                /\ ~el.disabled
                /\ target.role = "" \/ el.role = target.role
                /\ target.name = "" \/ el.name = target.name
                /\ target.nth = -1 \/ el.nth = target.nth
                /\ \/ target.name_contains = ""
                   \/ \E from \in 1..Len(lower(el.name)), to \in 1..Len(lower(el.name)) :
                         SubSeq(lower(el.name), from, to) = lower(target.name_contains)
            qualifying == {k \in 1..Len(acall.elems) : qualifies(acall.elems[k])}
        IN  IF qualifying = {}
            THEN acall.tried[n] = NoElement
            ELSE /\ ~acall.tried[n].disabled
                 /\ \E k \in qualifying :
                       /\ acall.tried[n] = acall.elems[k]
                       /\ \A j \in qualifying : k <= j

\* C23 witness: the target asks for a name containing "OK"; the first element
\* is a disabled one, the second, named "Book", differs from the target in
\* case and is the one returned.
C23_Witness ==
    /\ acall.status # ""
    /\ acall.target.name_contains = "OK"
    /\ Len(acall.elems) = 2
    /\ acall.elems[1].disabled
    /\ acall.elems[2].name = "Book"
    /\ acall.tried[1] = acall.elems[2]

(***************************************************************************)
(* Claims about validateSequence, checked under SpecValidate.              *)
(***************************************************************************)
\* C25: validateSequence returns valid = true exactly when its errors list
\* is empty, and that is exactly when the document has a name, has steps or
\* actions, every step (of steps, or of actions in its place) has one of the
\* eight actions, a target if it is a click, type or fill and a value if it
\* is a type or fill, and every declared variable spec has a type.
C25_ValidExactlyWhenWellFormed ==
    acall.called =>
        LET d == acall.sequenceJson
            list == IF "steps" \in DOMAIN d THEN d.steps
                    ELSE IF "actions" \in DOMAIN d THEN d.actions ELSE <<>>
            declared == IF "variables" \in DOMAIN d THEN d.variables ELSE <<>>
            wellFormed ==
                /\ d.hasName
                /\ DOMAIN d \cap {"steps", "actions"} # {}
                /\ \A k \in 1..Len(list) :
                      /\ list[k] # Null
                      /\ list[k].action \in {"click", "type", "fill", "scroll", "keypress",
                                              "screenshot", "navigate", "wait"}
                      /\ list[k].action \in {"click", "type", "fill"} => list[k].hasTarget
                      /\ list[k].action \in {"type", "fill"} => list[k].value.present
                /\ \A k \in 1..Len(declared) : declared[k] # Null /\ declared[k].hasType
        IN  /\ acall.ret.valid <=> wellFormed
            /\ ~acall.ret.threw => (acall.ret.valid <=> acall.ret.errors = {})

\* C25 witness: a named document with actions in place of steps, a step of
\* a valid action and a typed variable was found valid.
C25_Witness ==
    /\ acall.called
    /\ acall.ret.valid
    /\ "steps" \notin DOMAIN acall.sequenceJson
    /\ "actions" \in DOMAIN acall.sequenceJson
    /\ acall.sequenceJson.actions = <<StepScroll>>
    /\ "variables" \in DOMAIN acall.sequenceJson
    /\ Len(acall.sequenceJson.variables) = 1

\* C26 (as claimed): validateSequence never throws, whatever the entries of
\* steps, actions and variables.  Fails on a null step and on a null
\* variable spec.
C26_ValidateNeverThrows ==
    acall.called => ~acall.ret.threw

(***************************************************************************)
(* Claims about required variables, checked under SpecRequired.            *)
(***************************************************************************)
\* C19: when a variable declared required has no value from the caller, the
\* run issues no browser command at all, not even a snapshot, attempts no
\* step, and returns success = false with an empty step trace and an error
\* naming a missing variable, with its description when it declares one.
C19_MissingRequiredFailsUpFront ==
    LET missing == {k \in 1..Len(doc.variables) :
                       doc.variables[k].required /\ doc.variables[k].key \notin variables}
    IN  missing # {} =>
            /\ issued = {} /\ inflight = {} /\ execs = 0 /\ stepResults = <<>>
            /\ pc \in {"start", "done"}
            /\ pc = "done" =>
                  /\ result.kind = "returned"
                  /\ ~result.success
                  /\ result.steps = <<>>
                  /\ result.error = "Missing required variable"
                  /\ \E k \in missing :
                        /\ result.names[1] = doc.variables[k].key
                        /\ IF doc.variables[k].description # ""
                           THEN result.names = <<doc.variables[k].key,
                                                 doc.variables[k].description>>
                           ELSE Len(result.names) = 1

\* C19 witness: "user" is bound, the second declared variable "pass" is
\* required with a description and missing, and the run of a sequence with
\* steps is over.
C19_Witness ==
    /\ pc = "done"
    /\ variables = {"user"}
    /\ Len(doc.variables) = 2
    /\ doc.variables[1].required
    /\ doc.steps # <<>>
    /\ doc.url_pattern
    /\ result.names = <<"pass", "d2">>

(***************************************************************************)
(* Claims about the commands in flight, checked under SpecAwait.           *)
(***************************************************************************)
\* C18: within one run at most one browser command is outstanding at any
\* time, the steps are attempted in index order, and a command is issued only
\* when no other is in flight and for no earlier step than any sent before:
\* the first command of step i+1 follows the return or failure of every
\* command of step i.
C18_OneCommandAtATime ==
    /\ [](Cardinality(inflight) <= 1 /\ inflight \subseteq {Here})
    /\ [][/\ i' \in {i, i + 1}
          /\ \A c \in inflight' \ inflight :
                /\ inflight = {}
                /\ c.step >= cmdStep
                /\ c.step \in {-1, i, Len(doc.steps)}]_vars

\* C18 witness: the action of step 0 and its refresh snapshot have returned
\* and the first command of step 1 is in flight.
C18_Witness ==
    /\ \E c \in inflight : c.step = 1 /\ c.at[1] = "step"
    /\ cmdStep = 0
    /\ {"click", "snapshot"} \subseteq issued
    /\ sinceMut = "clean"

(***************************************************************************)
(* Claims about verifySuccess, checked under SpecVerify.                   *)
(***************************************************************************)
\* ceil(timeout / interval), the timeout 5000 when the verification gives none
CeilPolls ==
    LET timeout == IF doc.verification.timeout = 0 THEN DefaultVerifyTimeout
                   ELSE doc.verification.timeout
    IN  CHOOSE n \in 0..timeout : n * PollInterval >= timeout /\ (n - 1) * PollInterval < timeout

\* C15: verifySuccess takes at most ceil(timeout / 500) snapshots (timeout 5000
\* when not given), returns verified at the first poll that meets a criterion
\* without polling again, and otherwise stops after exactly that many polls.
C15_BoundedPolling ==
    doc.verification.present /\ doc.verification.targets # <<>> =>
        /\ poll <= CeilPolls
        /\ met => pc = "done" /\ result.kind = "returned" /\ result.success
        /\ pc = "done" /\ ~met => poll = CeilPolls

(***************************************************************************)
(* Claims about the Site Knowledge Store, checked under SpecK.             *)
(***************************************************************************)
Count(seq, x) == Cardinality({n \in 1..Len(seq) : seq[n] = x})
Stored(rec, x) == \E n \in 1..Len(rec.sections) : Count(rec.sections[n].gotchas, x) > 0
BaseGotchas(rec) ==
    IF \E n \in 1..Len(rec.sections) : rec.sections[n].key = BaseKey
    THEN rec.sections[CHOOSE n \in 1..Len(rec.sections) : rec.sections[n].key = BaseKey].gotchas
    ELSE <<>>
UrlsOf(d) == {u \in Urls : u.ok /\ u.host = d}
EffectiveCap == IF kconfig = 0 THEN DefaultMaxGotchas ELSE kconfig

\* a step of the store: the operation called, then every variable.  It is
\* unchanged exactly when vars is; two calls of different operations are told
\* apart by name, before their arguments and return values are compared
kStep == <<kcall.op, vars>>

\* the step is a call addGotcha(url, g) on the base section of the record of
\* the url's domain, a record that is absent or well formed
AddsToBase ==
    /\ kcall'.op = "addGotcha"
    /\ kcall'.url.ok
    /\ kcall'.arg.pattern = BaseKey
    /\ store[kcall'.url.host].state # "malformed"

LoadedOnce(st, d, g) ==
    \A u \in UrlsOf(d) : Count(loadKnowledge(st, u).gotchas, g) = 1

\* C8 as stated: for any domain d and any gotcha g not yet stored for d,
\* addGotcha(d, g) returns true and a following loadKnowledge for d returns a
\* gotcha list holding g exactly once; addGotcha(d, g) for a g already stored
\* returns false and leaves the record unchanged.
C8_UnseenGotchaStored ==
    [][AddsToBase =>
          LET d == kcall'.url.host
              g == kcall'.arg.gotcha
          IN  IF ~Stored(store[d], g)
              THEN kcall'.ret = TRUE /\ LoadedOnce(store', d, g)
              ELSE Count(BaseGotchas(store[d]), g) > 0
                      => kcall'.ret = FALSE /\ store' = store]_kStep

\* C8 amended: for a domain d whose record is absent or well formed and a
\* gotcha g not yet stored for d, addGotcha(d, g) returns true and a following
\* loadKnowledge for d holds g exactly once when d's base section holds fewer
\* gotchas than the cap in force; when the section is at the cap it returns
\* false and stores nothing.  addGotcha(d, g) for a g already in the base
\* section returns false and leaves the record unchanged.
C8_UnseenGotchaStoredBelowCap ==
    [][AddsToBase =>
          LET d == kcall'.url.host
              g == kcall'.arg.gotcha
          IN  /\ ~kcall'.threw
              /\ IF Count(BaseGotchas(store[d]), g) > 0
                 THEN kcall'.ret = FALSE /\ store' = store
                 ELSE IF Stored(store[d], g) THEN TRUE
                 ELSE IF Len(BaseGotchas(store[d])) < EffectiveCap
                 THEN /\ kcall'.ret = TRUE
                      /\ LoadedOnce(store', d, g)
                      /\ \A e \in Domains \ {d} : store'[e] = store[e]
                 ELSE kcall'.ret = FALSE /\ store' = store]_kStep

\* an unseen gotcha was accepted into a base section that already held one,
\* and loadKnowledge returns it once
C8_Witness ==
    /\ kcall.op = "addGotcha"
    /\ kcall.url.ok
    /\ kcall.arg.pattern = BaseKey
    /\ kcall.ret = TRUE
    /\ Len(BaseGotchas(store[kcall.url.host])) = 2
    /\ kconfig = 2
    /\ Count(loadKnowledge(store, kcall.url).gotchas, kcall.arg.gotcha) = 1

\* C9: in every state the store's operations reach, no section's gotcha list
\* holds the same string twice.
C9_NoDuplicateGotchas ==
    \A d \in Domains : \A n \in 1..Len(store[d].sections) : \A g \in GotchaTexts :
        Count(store[d].sections[n].gotchas, g) <= 1

\* applyLearnings was given the same learning twice for a domain without a
\* record and stored it once
C9_Witness ==
    /\ kcall.op = "applyLearnings"
    /\ kcall.arg.learnings = <<"g1", "g1">>
    /\ kcall.ret.gotchasAdded = 1
    /\ kcall.url.ok
    /\ store[kcall.url.host].sections = <<Section(BaseKey, <<"g1">>, NoEntries, NoEntries)>>

\* C10: for every configured cap c, c = 0 included, every section's gotcha
\* list holds at most c entries.
C10_ListWithinConfiguredCap ==
    \A d \in Domains : \A n \in 1..Len(store[d].sections) :
        Len(store[d].sections[n].gotchas) <= kconfig

\* C11: a Knowledge Store operation called on a domain whose record is
\* malformed JSON returns null or false, does not throw, and leaves the file
\* as it is.
C11_MalformedRecordRecovered ==
    [][/\ kcall'.op \in {"loadKnowledge", "addGotcha", "updateElement", "recordTaskResult"}
       /\ kcall'.url.ok
       /\ store[kcall'.url.host].state = "malformed"
       => /\ ~kcall'.threw
          /\ store' = store
          /\ IF kcall'.op = "loadKnowledge" THEN kcall'.ret = NoKnowledge
             ELSE kcall'.ret = FALSE]_kStep

(***************************************************************************)
(* Claims about loadKnowledge's merge, checked under SpecLoad.             *)
(***************************************************************************)
\* the record loaded by the last call and the path it was loaded for
Loaded == kcall.op = "loadKnowledge" /\ kcall.ret.found
LoadedSections == store[kcall.url.host].sections
RECURSIVE Ascending(_)
Ascending(S) ==
    IF S = {} THEN <<>>
    ELSE LET m == CHOOSE x \in S : \A y \in S : x <= y
         IN  <<m>> \o Ascending(S \ {m})

\* the positions of the pattern sections that match the path, in stored order
MatchingPatterns ==
    Ascending({n \in 1..Len(LoadedSections) :
                  /\ LoadedSections[n].key # BaseKey
                  /\ pathMatches(kcall.url.path, LoadedSections[n].key)})
BasePosition ==
    Ascending({n \in 1..Len(LoadedSections) : LoadedSections[n].key = BaseKey})
\* the contributing sections in merge order
Contributing == BasePosition \o MatchingPatterns

RECURSIVE GotchasOf(_)
GotchasOf(positions) ==
    IF positions = <<>> THEN <<>>
    ELSE LoadedSections[Head(positions)].gotchas \o GotchasOf(Tail(positions))

KeysOf(positions) == [n \in 1..Len(positions) |-> LoadedSections[positions[n]].key]

\* C12 as stated: the loaded gotcha list is the base section's gotchas followed
\* by those of each matching pattern in stored order, and matchedPatterns is
\* the base marker followed by exactly the matching pattern keys in that order.
C12_MergeOrder ==
    Loaded =>
        /\ kcall.ret.gotchas = GotchasOf(Contributing)
        /\ kcall.ret.matchedPatterns = <<BaseKey>> \o KeysOf(MatchingPatterns)

\* C12 amended: the loaded gotcha list is the base section's gotchas (none when
\* the record has no base section) followed by those of each matching pattern
\* in stored order; matchedPatterns is the base marker, present exactly when
\* the record has a base section, followed by exactly the matching pattern
\* keys in that order.
C12_MergeOrderOfContributors ==
    Loaded =>
        /\ kcall.ret.gotchas = GotchasOf(Contributing)
        /\ kcall.ret.matchedPatterns =
              (IF BasePosition # <<>> THEN <<BaseKey>> ELSE <<>>) \o KeysOf(MatchingPatterns)

\* a record stored as pattern, non-matching pattern, base was loaded for /x/1
C12_Witness ==
    /\ Loaded
    /\ kcall.url.path = PathX1
    /\ KeysOf([n \in 1..Len(LoadedSections) |-> n]) = <<PatternX, PathY, BaseKey>>
    /\ kcall.ret.matchedPatterns = <<BaseKey, PatternX>>
    /\ kcall.ret.gotchas = <<"g1", "g2", "g1">>

Range(seq) == {seq[n] : n \in 1..Len(seq)}
SectionOf(k) == LoadedSections[Contributing[k]]

\* C13: gotchas and tasks of later sections never overwrite: a task defined by
\* a contributing section is still in the result with that section's content
\* when a later contributing section defines a task of the same name, and the
\* merged gotcha list is the union of the sections' gotchas.
C13_TasksAndGotchasNeverOverwritten ==
    Loaded =>
        /\ \A k \in 1..Len(Contributing) : \A t \in DOMAIN SectionOf(k).tasks :
              (\A j \in 1..(k - 1) : t \notin DOMAIN SectionOf(j).tasks)
                  => /\ t \in DOMAIN kcall.ret.tasks
                     /\ kcall.ret.tasks[t] = SectionOf(k).tasks[t]
        /\ Range(kcall.ret.gotchas)
              = UNION {Range(SectionOf(k).gotchas) : k \in 1..Len(Contributing)}

\* the last contributing section for which P holds, 0 when there is none
LastWhere(P(_)) ==
    LET having == {k \in 1..Len(Contributing) : P(SectionOf(k))}
    IN  IF having = {} THEN 0 ELSE CHOOSE k \in having : \A j \in having : j <= k

\* C14: an element name, the editor or the description defined in several
\* contributing sections is loaded as the last of them in merge order defines
\* it; an element defined in one contributing section is loaded unchanged.
C14_LaterSectionOverwrites ==
    Loaded =>
        LET HasEditor(sec) == sec.editor # ""
            HasDescription(sec) == sec.description # ""
        IN  /\ DOMAIN kcall.ret.elements
                  = UNION {DOMAIN SectionOf(k).elements : k \in 1..Len(Contributing)}
            /\ \A name \in DOMAIN kcall.ret.elements :
                  LET Defines(sec) == name \in DOMAIN sec.elements
                  IN  kcall.ret.elements[name] = SectionOf(LastWhere(Defines)).elements[name]
            /\ kcall.ret.editor = IF LastWhere(HasEditor) = 0 THEN ""
                                  ELSE SectionOf(LastWhere(HasEditor)).editor
            /\ kcall.ret.description = IF LastWhere(HasDescription) = 0 THEN ""
                                       ELSE SectionOf(LastWhere(HasDescription)).description

\* base and /x/* both define btn, /x/1 alone defines lnk, base and /x/1 an
\* editor, base and /x/* a description
C14_Witness ==
    /\ Loaded
    /\ kcall.ret.matchedPatterns = <<BaseKey, PatternX, PathX1>>
    /\ LoadedSections[Contributing[1]].elements = Field("btn", Field("selector", "s0"))
    /\ kcall.ret.elements = Assign(Field("btn", Field("selector", "sx")),
                                   Field("lnk", Field("selector", "s3")))
    /\ kcall.ret.editor = "e2"
    /\ kcall.ret.description = "d2"

(***************************************************************************)
(* Claims about the command layer, checked under SpecArgs.                 *)
(***************************************************************************)
\* the text a step's value stands for once its variables are bound
RECURSIVE Meant(_, _)
Meant(template, vs) ==
    IF template = <<>> THEN <<>>
    ELSE (IF Head(template).kind = "var" THEN vs[Head(template).text]
          ELSE <<Head(template).text>>) \o Meant(Tail(template), vs)

\* C6: whatever value a variable of a type or fill step is bound to, the
\* argument vector handed to agent-browser has the same length, the same
\* command and ref arguments, and one text argument carrying the value.
C6_NoArgumentInjection ==
    acall.method \in {"type", "fill"} /\ ~acall.threw =>
        /\ Len(acall.argv) = 5
        /\ acall.argv[3] = Chars(acall.method)
        /\ acall.argv[4] = Chars("@e1")
        /\ acall.argv[5] = Meant(acall.value, acall.vars)

(***************************************************************************)
(* Claims about pathMatches, checked under SpecMatch.                      *)
(***************************************************************************)
RECURSIVE WholeMatch(_, _)
\* the whole path is the pattern read from left to right, a * of the pattern
\* standing for one or more characters other than the slash and every other
\* character of the pattern for itself
WholeMatch(path, pattern) ==
    IF pattern = <<>> THEN path = <<>>
    ELSE IF Head(pattern) = "*"
         THEN \E n \in 1..Len(path) :
                 /\ \A k \in 1..n : path[k] # "/"
                 /\ WholeMatch(SubSeq(path, n + 1, Len(path)), Tail(pattern))
         ELSE /\ path # <<>>
              /\ Head(path) = Head(pattern)
              /\ WholeMatch(Tail(path), Tail(pattern))

\* C27: pathMatches(path, pattern) is true exactly when the path equals the
\* pattern, or the whole path matches the pattern with every literal
\* character matched literally and every * matched by a non-empty run of
\* characters other than the slash; the three examples of the specification
\* come out as true, false and true.
C27_WildcardIsOneSegment ==
    acall.called =>
        /\ acall.ret <=> (acall.urlPath = acall.pattern
                            \/ WholeMatch(acall.urlPath, acall.pattern))
        /\ (<<acall.urlPath, acall.pattern>> \in TestedPairs =>
                (acall.ret <=> acall.urlPath # Chars("/user/profile")))

\* a pattern with a literal dot, a slash and a wildcard matched a path that
\* is not the pattern
C27_Witness ==
    /\ acall.called
    /\ acall.ret
    /\ acall.urlPath # acall.pattern
    /\ \E k \in 1..Len(acall.pattern) : acall.pattern[k] = "*"
    /\ \E k \in 1..Len(acall.pattern) : acall.pattern[k] = "."

(***************************************************************************)
(* Claims about records that do not exist, checked under SpecK.            *)
(***************************************************************************)
\* the step is a call of op on a url whose domain has no stored record
OnUnknownDomain(op) ==
    /\ kcall'.op = op
    /\ kcall'.url.ok
    /\ store[kcall'.url.host].state = "absent"

\* C28: only addGotcha creates domain records. For a domain with no stored
\* record loadKnowledge returns null, updateElement and recordTaskResult
\* return false, none of them raises an error and the store has no record
\* for the domain afterwards; a step that leaves a record where there was
\* none is a call of addGotcha, made directly or by applyLearnings.
C28_OnlyAddGotchaCreates ==
    [][/\ OnUnknownDomain("loadKnowledge") =>
              kcall'.ret = NoKnowledge /\ ~kcall'.threw /\ store' = store
       /\ OnUnknownDomain("updateElement") =>
              kcall'.ret = FALSE /\ ~kcall'.threw /\ store' = store
       /\ OnUnknownDomain("recordTaskResult") =>
              kcall'.ret = FALSE /\ ~kcall'.threw /\ store' = store
       /\ \A d \in Domains :
              store[d].state = "absent" /\ store'[d].state # "absent" =>
                  /\ kcall'.op \in {"addGotcha", "applyLearnings"}
                  /\ kcall'.url.host = d]_kStep

\* updateElement has answered false for a domain that still has no record,
\* after a write to the record of the other domain
C28_Witness ==
    /\ kcall.op = "updateElement"
    /\ kcall.url.ok
    /\ kcall.ret = FALSE
    /\ store[kcall.url.host].state = "absent"
    /\ \E d \in Domains : store[d].state = "ok" /\ store[d].updated > 0

(***************************************************************************)
(* Claims about task counters, checked under SpecK.                        *)
(***************************************************************************)
\* the sections of a record that define the task, by position
Defining(rec, taskName) ==
    {n \in 1..Len(rec.sections) : taskName \in DOMAIN rec.sections[n].tasks}

\* C29: recordTaskResult(url, taskName, success) changes exactly one
\* counter. In the first section, in stored order, that defines the task it
\* adds 1 to success_count when success is true and to failure_count
\* otherwise, leaves the other counter, every other task and every other
\* section (also one defining the same task) as they were and returns true;
\* when no section defines the task it returns false and the record is
\* unchanged.
C29_ExactlyOneCounter ==
    [][kcall'.op = "recordTaskResult" /\ kcall'.url.ok /\ store[kcall'.url.host].state = "ok" =>
          LET d == kcall'.url.host
              name == kcall'.arg.taskName
              won == IF kcall'.arg.success THEN 1 ELSE 0
              before == store[d].sections
              after == store'[d].sections
              having == Defining(store[d], name)
          IN  /\ ~kcall'.threw
              /\ \A e \in Domains \ {d} : store'[e] = store[e]
              /\ IF having = {}
                 THEN kcall'.ret = FALSE /\ store'[d] = store[d]
                 ELSE LET n == CHOOSE m \in having : \A k \in having : m <= k
                      IN  /\ kcall'.ret = TRUE
                          /\ Len(after) = Len(before)
                          /\ \A m \in 1..Len(before) : m # n => after[m] = before[m]
                          /\ after[n] = [before[n] EXCEPT !.tasks = after[n].tasks]
                          /\ DOMAIN after[n].tasks = DOMAIN before[n].tasks
                          /\ \A other \in DOMAIN before[n].tasks \ {name} :
                                 after[n].tasks[other] = before[n].tasks[other]
                          /\ after[n].tasks[name].success_count =
                                 before[n].tasks[name].success_count + won
                          /\ after[n].tasks[name].failure_count =
                                 before[n].tasks[name].failure_count + (1 - won)]_kStep

\* a failure was counted in the base section of a record whose pattern
\* section defines the same task and whose base section has another task
C29_Witness ==
    /\ kcall.op = "recordTaskResult"
    /\ kcall.url.ok
    /\ kcall.ret = TRUE
    /\ ~kcall.arg.success
    /\ store[kcall.url.host].state = "ok"
    /\ LET secs == store[kcall.url.host].sections
       IN  /\ Len(secs) >= 2
           /\ secs[1].tasks = Field("login", Task(1, 1)) @@ Field("logout", Task(0, 1))
           /\ secs[2].tasks = Field("login", Task(0, 0))

(***************************************************************************)
(* Claims about preconditions, checked under Spec.                         *)
(***************************************************************************)
\* C30: runSequence checks a declared precondition URL pattern before
\* running: when the sequence declares preconditions.url_pattern and the
\* page shown does not satisfy it, no step of the sequence is executed.
C30_UrlPatternGatesSteps ==
    doc.url_pattern /\ ~urlOk => stepResults = <<>> /\ cmdStep < 0 /\ execs = 0

(***************************************************************************)
(* Claims about analyzeResult, checked under SpecAnalyze.                  *)
(***************************************************************************)
\* the text has one of the keywords in it, whatever the case of its letters
Mentions(output, keywords) ==
    \E k \in 1..Len(keywords) :
        \E at \in 1..Len(output) :
            /\ at + Len(keywords[k]) - 1 <= Len(output)
            /\ \A n \in 1..Len(keywords[k]) :
                   toLowerCase(<<output[at + n - 1]>>) = <<keywords[k][n]>>

\* C31: analyzeResult classifies by fixed precedence: failure when the
\* output has a failure keyword (also next to a success keyword), otherwise
\* success when it has a success keyword, otherwise unknown; confidence is
\* low for failure and success and none for unknown; learnings and
\* suggestedRetry are there for a failure verdict only.
C31_FailureTakesPrecedence ==
    acall.called =>
        LET failing == Mentions(acall.output, failureIndicators)
            succeeding == Mentions(acall.output, successIndicators)
        IN  /\ acall.ret.success = (IF failing THEN "failure"
                                    ELSE IF succeeding THEN "success" ELSE "unknown")
            /\ acall.ret.confidence = (IF acall.ret.success = "unknown" THEN "none" ELSE "low")
            /\ acall.ret.success # "failure" =>
                   acall.ret.learnings = <<>> /\ acall.ret.suggestedRetry = NoRetry
            /\ acall.ret.success = "failure" => acall.ret.suggestedRetry # NoRetry

\* an output with a success and a failure keyword was classified a failure
\* and gave a learning
C31_Witness ==
    /\ acall.called
    /\ Mentions(acall.output, successIndicators)
    /\ Mentions(acall.output, failureIndicators)
    /\ acall.ret.success = "failure"
    /\ acall.ret.learnings # <<>>

(***************************************************************************)
(* Claims about applyLearnings, checked under SpecK.                       *)
(***************************************************************************)
RECURSIVE Summed(_)
Summed(seq) == IF seq = <<>> THEN 0 ELSE Head(seq) + Summed(Tail(seq))

\* the outcomes a section has counted for a task, 0 when it has no such task
CountedFor(section, task) ==
    IF task \in DOMAIN section.tasks
    THEN section.tasks[task].success_count + section.tasks[task].failure_count
    ELSE 0

\* the task outcomes a record has counted, over all sections and tasks
Counted(rec) ==
    Summed([n \in 1..Len(rec.sections) |->
              CountedFor(rec.sections[n], "login") + CountedFor(rec.sections[n], "logout")])

\* C32: applyLearnings reports what was persisted: gotchasAdded is the
\* number of gotchas by which the domain's base section grew during the
\* call, taskUpdated is true exactly when a task counter was incremented,
\* and a learning that is stored already, repeated in the call or refused
\* by the cap raises no error.
C32_ReportsWhatWasPersisted ==
    [][kcall'.op = "applyLearnings" /\ kcall'.url.ok =>
          LET d == kcall'.url.host
          IN  /\ store[d].state # "malformed" => ~kcall'.threw
              /\ ~kcall'.threw =>
                  /\ kcall'.ret.gotchasAdded =
                         Len(BaseGotchas(store'[d])) - Len(BaseGotchas(store[d]))
                  /\ Counted(store'[d]) =
                         Counted(store[d]) + (IF kcall'.ret.taskUpdated THEN 1 ELSE 0)]_kStep

\* a call given the same new learning twice stored it once and reported 1
C32_Witness ==
    /\ kcall.op = "applyLearnings"
    /\ kcall.url.ok
    /\ ~kcall.threw
    /\ kcall.arg.learnings = <<"g1", "g1">>
    /\ kcall.ret.gotchasAdded = 1
    /\ Count(BaseGotchas(store[kcall.url.host]), "g1") = 1

(***************************************************************************)
(* Claims about termination, checked under SpecLive.                       *)
(***************************************************************************)
\* the run is over, by a returned result or by an exception
Ended == pc = "done"

\* C33: assuming every browser command eventually returns or fails, every
\* run of runSequence on a finite sequence eventually reaches one of the
\* terminal states succeeded or failed: it returns a result.
C33_ReachesSucceededOrFailed == <>(Ended /\ result.kind = "returned")

(***************************************************************************)
(* Claims about what a Knowledge Store write leaves alone, checked under   *)
(* SpecK.                                                                  *)
(***************************************************************************)
IsPrefix(short, long) ==
    Len(short) <= Len(long) /\ SubSeq(long, 1, Len(short)) = short

\* the section of a record with this key (the record has one)
SectionKeyed(rec, k) ==
    rec.sections[CHOOSE n \in 1..Len(rec.sections) : rec.sections[n].key = k]
HasSection(rec, k) == \E n \in 1..Len(rec.sections) : rec.sections[n].key = k

\* C34: gotchas are append-only. Across addGotcha, updateElement,
\* recordTaskResult and applyLearnings calls each section's stored gotcha
\* list after a call has its value before the call as a prefix: no gotcha
\* is removed, changed or reordered and a new one goes to the end.
C34_GotchasAppendOnly ==
    [][\A d \in Domains : \A n \in 1..Len(store[d].sections) :
          LET before == store[d].sections[n]
          IN  /\ HasSection(store'[d], before.key)
              /\ IsPrefix(before.gotchas, SectionKeyed(store'[d], before.key).gotchas)]_kStep

\* a second gotcha was added behind the one the base section had
C34_Witness ==
    /\ kcall.op \in {"addGotcha", "applyLearnings"}
    /\ kcall.url.ok
    /\ ~kcall.threw
    /\ store[kcall.url.host].updated > 0
    /\ BaseGotchas(store[kcall.url.host]) = <<"g1", "g2">>

\* the parts of a section a gotcha write leaves alone / an element write
\* leaves alone; a section the record did not have counts as an empty one
Untouched(rec, k, fields) ==
    LET sec == IF HasSection(rec, k) THEN SectionKeyed(rec, k) ELSE EmptySection(k)
    IN  [f \in fields |-> sec[f]]

\* C35: Knowledge Store writes change only their target. addGotcha(url, g,
\* section) changes only that section's gotcha list (and the updated stamp);
\* updateElement(url, name, info) changes only the base section's element
\* entry for name, keeping the fields of the entry that info does not name;
\* neither changes a task counter, another element or another section, and a
\* call that returns false writes nothing.
C35_WritesChangeOnlyTheirTarget ==
    [][kcall'.op \in {"addGotcha", "updateElement"} /\ kcall'.url.ok =>
          LET d == kcall'.url.host
              target == IF kcall'.op = "addGotcha" THEN kcall'.arg.pattern ELSE BaseKey
              kept == IF kcall'.op = "addGotcha"
                      THEN {"elements", "tasks", "editor", "description"}
                      ELSE {"gotchas", "tasks", "editor", "description"}
          IN  /\ \A e \in Domains \ {d} : store'[e] = store[e]
              /\ kcall'.ret # TRUE => store' = store
              /\ kcall'.ret = TRUE =>
                  /\ \A n \in 1..Len(store[d].sections) :
                         store[d].sections[n].key # target =>
                             /\ HasSection(store'[d], store[d].sections[n].key)
                             /\ SectionKeyed(store'[d], store[d].sections[n].key)
                                    = store[d].sections[n]
                  /\ \A n \in 1..Len(store'[d].sections) :
                         store'[d].sections[n].key # target =>
                             HasSection(store[d], store'[d].sections[n].key)
                  /\ Untouched(store'[d], target, kept) = Untouched(store[d], target, kept)
                  /\ kcall'.op = "updateElement" =>
                         LET old == Untouched(store[d], target, {"elements"}).elements
                             new == Untouched(store'[d], target, {"elements"}).elements
                             name == kcall'.arg.name
                             info == kcall'.arg.selectorInfo
                             was == IF name \in DOMAIN old THEN old[name] ELSE NoEntries
                         IN  /\ DOMAIN new = DOMAIN old \cup {name}
                             /\ \A other \in DOMAIN old \ {name} : new[other] = old[other]
                             /\ DOMAIN new[name] = DOMAIN was \cup DOMAIN info
                             /\ \A f \in DOMAIN info : new[name][f] = info[f]
                             /\ \A f \in DOMAIN was \ DOMAIN info : new[name][f] = was[f]]_kStep

\* updateElement gave the stored entry of btn a note and kept its selector
C35_Witness ==
    /\ kcall.op = "updateElement"
    /\ kcall.url.ok
    /\ kcall.ret = TRUE
    /\ kcall.arg.selectorInfo = Field("note", "n1")
    /\ HasSection(store[kcall.url.host], BaseKey)
    /\ SectionKeyed(store[kcall.url.host], BaseKey).elements["btn"]
           = Field("selector", "s0") @@ Field("note", "n1")
    /\ SectionKeyed(store[kcall.url.host], BaseKey).tasks # NoEntries

(***************************************************************************)
(* Claims about analyzeResult with applyLearnings, checked under SpecLearn.*)
(***************************************************************************)
\* the successes / the failures a record has counted for the task login
Successes(rec) ==
    Summed([n \in 1..Len(rec.sections) |->
              IF "login" \in DOMAIN rec.sections[n].tasks
              THEN rec.sections[n].tasks["login"].success_count ELSE 0])
Failures(rec) ==
    Summed([n \in 1..Len(rec.sections) |->
              IF "login" \in DOMAIN rec.sections[n].tasks
              THEN rec.sections[n].tasks["login"].failure_count ELSE 0])

\* C36: when the analysis analyzeResult returned is passed to applyLearnings
\* with an updateTask name, the task outcome recorded matches the verdict: a
\* failure verdict increments the failure counter and leaves the success
\* counter unchanged, and only a success verdict increments the success
\* counter.
C36_OutcomeMatchesVerdict ==
    [][kcall'.op = "applyLearnings" /\ kcall'.url.ok /\ ~kcall'.threw =>
          LET d == kcall'.url.host
              verdict == kcall'.arg.success
          IN  /\ verdict = "failure" /\ kcall'.ret.taskUpdated =>
                     /\ Failures(store'[d]) = Failures(store[d]) + 1
                     /\ Successes(store'[d]) = Successes(store[d])
              /\ Successes(store'[d]) # Successes(store[d]) => verdict = "success"]_kStep

(***************************************************************************)
(* Claims about concurrent addGotcha calls, checked under SpecRace.        *)
(***************************************************************************)
\* C37: when two processes call addGotcha concurrently on the same domain
\* with two distinct gotchas, under every interleaving of their file reads
\* and writes each call that returned true has its gotcha in the stored
\* record after both calls are over (no lost update), no gotcha is stored
\* twice and the list is within the cap.
C37_NoLostUpdate ==
    (\A p \in Procs : kcall[p].at = "done") /\ kcall[1].gotcha # kcall[2].gotcha =>
        LET rec == store[kcall[1].url.host]
        IN  /\ \A p \in Procs : kcall[p].ret => Count(BaseGotchas(rec), kcall[p].gotcha) = 1
            /\ \A g \in GotchaTexts : Count(BaseGotchas(rec), g) <= 1
            /\ Len(BaseGotchas(rec)) <= maxGotchas(kconfig)

(***************************************************************************)
(* Claims about the returned trace, checked under Spec.                    *)
(***************************************************************************)
\* C38: every result runSequence returns has a well-formed trace: the step
\* entries are in strictly increasing index order with exactly one entry for
\* each attempted step, and a result with success = true has an entry with
\* status ok or ok (retry) for every step of the sequence and no entry with
\* status failed.
C38_WellFormedTrace ==
    pc = "done" /\ result.kind = "returned" =>
        LET trace == result.steps
        IN  /\ \A n \in 1..Len(trace) : trace[n].step = n - 1
            /\ result.success =>
                  /\ Len(trace) = Len(doc.steps)
                  /\ \A n \in 1..Len(trace) : trace[n].status \in {"ok", "ok (retry)"}

(***************************************************************************)
(* Claims about _parseArgs, checked under SpecParse.                       *)
(***************************************************************************)
\* C39: _parseArgs splits a command on the spaces outside quotes, emits no
\* empty argument for a run of spaces, and delivers every single- or
\* double-quoted segment as exactly one argument whose content is the text
\* between the quotes, spaces preserved, for every quoted text (the empty
\* one too) without the quote character.
C39_QuotedSegmentIsOneArgument ==
    acall.called =>
        /\ Len(acall.argv) = Len(acall.pieces)
        /\ \A n \in 1..Len(acall.pieces) : acall.argv[n] = acall.pieces[n].text

====
